---- MODULE Spec2Model ----
(***************************************************************************)
(* Model of the in-process core of the RAG web application:                *)
(*   - MemoryCache (lib/cache): TTL cache with capacity-bound eviction,    *)
(*     lazy expiry on read and a background sweep;                         *)
(*   - rateLimit (lib/ratelimit): sliding-window limiter, one bucket per   *)
(*     key;                                                                *)
(*   - the POST handlers of /api/upload, /api/chat/stream and /api/chat    *)
(*     that use them, split at their await points.                         *)
(* Time is the value of Date.now(), in abstract ticks.  The durations of   *)
(* the program (TTL 300000 ms, window 60000 ms) and its capacities         *)
(* (500 entries, 60 requests) are scaled down to a few ticks and entries.  *)
(***************************************************************************)
EXTENDS Integers, Sequences, FiniteSets, TLC

VARIABLES
  clock,      \* Date.now()
  cache,      \* MemoryCache.cache: the Map, as the sequence of its entries in Map order
  stats,      \* MemoryCache.stats: [hits, misses]
  getCalls,   \* history: the get calls made since construction or the last clear()
  cacheRet,   \* observation: the MemoryCache call just made (none once the clock moves on)
  stored,     \* history: what set stored and nobody has overwritten, deleted or evicted
  buckets,    \* ratelimit.ts buckets: key -> [timestamps, limit, windowMs]
  rlRet,      \* observation: the rateLimit call just made (none once the clock moves on)
  admitted,   \* history: per key, the timestamps of the admitted calls, in call order
  fixedCfg,   \* history: per key, TRUE while every call so far passed the same limit and windowMs
  reqs,       \* the HTTP requests: endpoint, position in the handler, locals, response
  uploadDir,  \* storage/uploads: the files written by saveIncomingFile
  keyArgs,    \* the arguments of a key generator call
  keyOut,     \* the key it returned ("" before the call)
  twin,       \* a second MemoryCache given the same calls, and sweeps in between
  served,     \* history: per request, Date.now() when its 200 response was returned
  lastDenied, \* history: the first denied rateLimit call since the last admitted one
  retry       \* one retryWithBackoff call: arguments, loop position, locals, outcome

cacheVars == <<cache, stats, getCalls, cacheRet, stored>>
rlVars == <<buckets, rlRet, admitted, fixedCfg>>
apiVars == <<reqs, uploadDir>>
keyVars == <<keyArgs, keyOut>>
vars ==
  <<clock, cache, stats, getCalls, cacheRet, stored, buckets, rlRet, admitted, fixedCfg,
    reqs, uploadDir, keyArgs, keyOut, twin, served, lastDenied, retry>>

(***************************************************************************)
(* Bounds and input sets                                                   *)
(***************************************************************************)
MaxClock == 2          \* the clock of the limiter runs 0..MaxClock
MaxCacheClock == 2     \* the clock of the cache specification runs 0..MaxCacheClock
MaxGets == 1           \* cap on stats.hits + stats.misses (the counters are unbounded)
maxSize == 2           \* MemoryCache.maxSize (500 for responseCache), scaled
defaultTtl == 1        \* MemoryCache.defaultTtl (300000 ms), scaled to ticks
MaxLimit == 3          \* limit arguments of rateLimit are 0..MaxLimit
MaxWindow == 2         \* windowMs arguments of rateLimit are 1..MaxWindow

Undefined == -1        \* an omitted optional number argument
NaN == -2              \* the result of arithmetic on undefined
NoKey == ""            \* null; like the empty string it is falsy in `if (oldestKey)`
Null == "null"         \* the null returned by get

Keys == {"k1", "k2", "k3"}
Values == {"v1", "v2"}
TtlArgs == {Undefined, 0}
\* the set calls made: k1 with either value, k2 with either ttl argument
SetArgs ==
  {<<"k1", "v1", Undefined>>, <<"k1", "v2", Undefined>>,
   <<"k2", "v1", Undefined>>, <<"k2", "v1", 0>>,
   <<"k3", "v1", Undefined>>}
RLKeys == {"a", "b"}
Limits == 0..MaxLimit
Windows == 1..MaxWindow
\* every key a bucket is made for: those of the direct calls and those of the handlers
BucketKeys == RLKeys \cup {"chat:ip1", "chat_stream:ip1", "upload:ip1", "chat:ip2"}
\* the rateLimit calls made: every limit and window on key a, one quota on key b
LimitsOf(key) == IF key = "a" THEN Limits ELSE {1}
WindowsOf(key) == IF key = "a" THEN Windows ELSE {MaxWindow}

Max(a, b) == IF a >= b THEN a ELSE b

(***************************************************************************)
(* The Map<string, CacheEntry> of MemoryCache.  A JS Map iterates in       *)
(* insertion order; set on a present key keeps the key's position.         *)
(***************************************************************************)
MapIndex(m, key) ==
  IF \E i \in 1..Len(m) : m[i].key = key
  THEN CHOOSE i \in 1..Len(m) : m[i].key = key
  ELSE 0

MapHas(m, key) == MapIndex(m, key) # 0

MapGet(m, key) == IF MapHas(m, key) THEN <<m[MapIndex(m, key)]>> ELSE <<>>

MapDelete(m, key) == SelectSeq(m, LAMBDA e : e.key # key)

MapSet(m, key, e) ==
  IF MapHas(m, key) THEN [m EXCEPT ![MapIndex(m, key)] = e] ELSE Append(m, e)

MapKeys(m) == {m[i].key : i \in 1..Len(m)}

CacheEntry(key, value, now, ttl) ==
  [key |-> key, data |-> value, timestamp |-> now, ttl |-> ttl, hits |-> 0]

(***************************************************************************)
(* MemoryCache.evictOldest: the scan starts from oldestTimestamp =         *)
(* Date.now() and oldestKey = null and takes an entry only when its        *)
(* timestamp is strictly smaller.                                          *)
(***************************************************************************)
RECURSIVE evictScan(_, _, _, _)
evictScan(m, i, oldestKey, oldestTimestamp) ==
  IF i > Len(m) THEN oldestKey
  ELSE IF m[i].timestamp < oldestTimestamp
       THEN evictScan(m, i + 1, m[i].key, m[i].timestamp)
       ELSE evictScan(m, i + 1, oldestKey, oldestTimestamp)

evictOldest(m, now) ==
  LET oldestKey == evictScan(m, 1, NoKey, now)
  IN IF oldestKey # NoKey THEN MapDelete(m, oldestKey) ELSE m

(***************************************************************************)
(* MemoryCache.set.  now is the Date.now() of set, evictNow the later      *)
(* Date.now() of evictOldest.                                              *)
(***************************************************************************)
\* an overwrite that keeps the old entry's creation time and hit count
cacheSetUpdatesInPlace(m, key, value, ttl, now, evictNow) ==
  LET entryTtl == IF ttl = Undefined THEN defaultTtl ELSE ttl
      m1 == IF Len(m) >= maxSize /\ ~MapHas(m, key) THEN evictOldest(m, evictNow) ELSE m
  IN IF MapHas(m1, key)
     THEN [m1 EXCEPT ![MapIndex(m1, key)].data = value, ![MapIndex(m1, key)].ttl = entryTtl]
     ELSE Append(m1, CacheEntry(key, value, now, entryTtl))

cacheSet(m, key, value, ttl, now, evictNow) ==
  LET entryTtl == IF ttl = Undefined THEN defaultTtl ELSE ttl
      m1 == IF Len(m) >= maxSize /\ ~MapHas(m, key) THEN evictOldest(m, evictNow) ELSE m
  IN MapSet(m1, key, CacheEntry(key, value, now, entryTtl))

(***************************************************************************)
(* MemoryCache.get: the new Map, the new stats and the value returned.     *)
(***************************************************************************)
\* an expired read that is not counted as a miss
cacheGetExpiredUncounted(m, st, key, now) ==
  LET i == MapIndex(m, key)
  IN IF i = 0
     THEN [cache |-> m, stats |-> [st EXCEPT !.misses = @ + 1], found |-> FALSE, data |-> Null]
     ELSE IF now - m[i].timestamp > m[i].ttl
          THEN [cache |-> MapDelete(m, key), stats |-> st, found |-> FALSE, data |-> Null]
          ELSE [cache |-> [m EXCEPT ![i].hits = @ + 1], stats |-> [st EXCEPT !.hits = @ + 1],
                found |-> TRUE, data |-> m[i].data]

\* a hit that leaves the entry's own hit count alone
cacheGetNoEntryHit(m, st, key, now) ==
  LET i == MapIndex(m, key)
  IN IF i = 0
     THEN [cache |-> m, stats |-> [st EXCEPT !.misses = @ + 1], found |-> FALSE, data |-> Null]
     ELSE IF now - m[i].timestamp > m[i].ttl
          THEN [cache |-> MapDelete(m, key), stats |-> [st EXCEPT !.misses = @ + 1],
                found |-> FALSE, data |-> Null]
          ELSE [cache |-> m, stats |-> [st EXCEPT !.hits = @ + 1],
                found |-> TRUE, data |-> m[i].data]

\* a get with no expiry test: whatever the Map holds under the key is returned
cacheGetIgnoresExpiry(m, st, key, now) ==
  LET i == MapIndex(m, key)
  IN IF i = 0
     THEN [cache |-> m, stats |-> [st EXCEPT !.misses = @ + 1], found |-> FALSE, data |-> Null]
     ELSE [cache |-> [m EXCEPT ![i].hits = @ + 1], stats |-> [st EXCEPT !.hits = @ + 1],
           found |-> TRUE, data |-> m[i].data]

cacheGetExpiresAtTtl(m, st, key, now) ==
  LET i == MapIndex(m, key)
  IN IF i = 0
     THEN [cache |-> m, stats |-> [st EXCEPT !.misses = @ + 1], found |-> FALSE, data |-> Null]
     ELSE IF now - m[i].timestamp >= m[i].ttl
          THEN [cache |-> MapDelete(m, key), stats |-> [st EXCEPT !.misses = @ + 1],
                found |-> FALSE, data |-> Null]
          ELSE [cache |-> [m EXCEPT ![i].hits = @ + 1], stats |-> [st EXCEPT !.hits = @ + 1],
                found |-> TRUE, data |-> m[i].data]

cacheGet(m, st, key, now) ==
  LET i == MapIndex(m, key)
  IN IF i = 0
     THEN [cache |-> m, stats |-> [st EXCEPT !.misses = @ + 1], found |-> FALSE, data |-> Null]
     ELSE IF now - m[i].timestamp > m[i].ttl
          THEN [cache |-> MapDelete(m, key), stats |-> [st EXCEPT !.misses = @ + 1],
                found |-> FALSE, data |-> Null]
          ELSE [cache |-> [m EXCEPT ![i].hits = @ + 1], stats |-> [st EXCEPT !.hits = @ + 1],
                found |-> TRUE, data |-> m[i].data]

(***************************************************************************)
(* MemoryCache.has                                                         *)
(***************************************************************************)
\* has with the expiry test of an entry at age = ttl turned around
cacheHasExpiresAtTtl(m, key, now) ==
  LET i == MapIndex(m, key)
  IN IF i = 0
     THEN [cache |-> m, found |-> FALSE]
     ELSE IF now - m[i].timestamp >= m[i].ttl
          THEN [cache |-> MapDelete(m, key), found |-> FALSE]
          ELSE [cache |-> m, found |-> TRUE]

cacheHasIgnoresExpiry(m, key, now) == [cache |-> m, found |-> MapHas(m, key)]

cacheHas(m, key, now) ==
  LET i == MapIndex(m, key)
  IN IF i = 0
     THEN [cache |-> m, found |-> FALSE]
     ELSE IF now - m[i].timestamp > m[i].ttl
          THEN [cache |-> MapDelete(m, key), found |-> FALSE]
          ELSE [cache |-> m, found |-> TRUE]

(***************************************************************************)
(* MemoryCache.cleanup, the body of the setInterval sweep                  *)
(***************************************************************************)
\* a sweep that also removes the entries whose age equals their ttl
cacheCleanupExpiresAtTtl(m, now) == SelectSeq(m, LAMBDA e : ~(now - e.timestamp >= e.ttl))

cacheCleanup(m, now) == SelectSeq(m, LAMBDA e : ~(now - e.timestamp > e.ttl))

(***************************************************************************)
(* History of stored entries: set puts the entry in, and takes out the     *)
(* one it overwrites and the one it evicts; delete and clear take out.     *)
(* Expiry (get, has, cleanup) does not touch it.                           *)
(***************************************************************************)
StoredRec(e) == [key |-> e.key, data |-> e.data, timestamp |-> e.timestamp, ttl |-> e.ttl]

StoredAfterSet(s, m, m2, key) ==
  {x \in s : x.key # key /\ (x.key \in MapKeys(m) => x.key \in MapKeys(m2))}
    \cup {StoredRec(m2[MapIndex(m2, key)])}

\* had: the Map held an entry under key when the call started
Observe(op, key, found, data, had) ==
  [op |-> op, key |-> key, found |-> found, data |-> data, had |-> had]

NoCall == Observe("none", NoKey, FALSE, Null, FALSE)

\* no denied call since the last admitted one
NoDenial == [denied |-> FALSE, at |-> 0, resetMs |-> 0]

NoLimitCall ==
  [key |-> NoKey, limit |-> 0, windowMs |-> 0, allowed |-> FALSE, remaining |-> 0, resetMs |-> 0]

(***************************************************************************)
(* Actions on the cache                                                    *)
(***************************************************************************)
Tick(limit) ==
  /\ clock < limit
  /\ clock' = clock + 1
  /\ cacheRet' = NoCall
  /\ rlRet' = NoLimitCall
  /\ UNCHANGED <<cache, stats, getCalls, stored, buckets, admitted, fixedCfg, apiVars, keyVars, twin, served, lastDenied, retry>>

\* set(key, value, ttl?); elapsed is the time between the two Date.now() reads
Set(key, value, ttl, elapsed) ==
  /\ clock + elapsed <= MaxCacheClock
  /\ elapsed > 0 => (Len(cache) >= maxSize /\ ~MapHas(cache, key))
  /\ cache' = cacheSet(cache, key, value, ttl, clock, clock + elapsed)
  /\ clock' = clock + elapsed
  /\ stored' = StoredAfterSet(stored, cache, cache', key)
  /\ cacheRet' = Observe("set", key, FALSE, value, MapHas(cache, key))
  /\ UNCHANGED <<stats, getCalls, rlVars, apiVars, keyVars, twin, served, lastDenied, retry>>

\* get(key), while fewer than cap get calls are counted
GetWithin(key, cap) ==
  /\ stats.hits + stats.misses < cap
  /\ LET r == cacheGet(cache, stats, key, clock)
     IN /\ cache' = r.cache
        /\ stats' = r.stats
        /\ getCalls' = getCalls + 1
        /\ cacheRet' = Observe("get", key, r.found, r.data, MapHas(cache, key))
  /\ UNCHANGED <<clock, stored, rlVars, apiVars, keyVars, twin, served, lastDenied, retry>>

Get(key) == GetWithin(key, MaxGets)

Has(key) ==
  /\ LET r == cacheHas(cache, key, clock)
     IN /\ cache' = r.cache
        /\ cacheRet' = Observe("has", key, r.found, Null, MapHas(cache, key))
  /\ UNCHANGED <<clock, stats, getCalls, stored, rlVars, apiVars, keyVars, twin, served, lastDenied, retry>>

Delete(key) ==
  /\ cache' = MapDelete(cache, key)
  /\ stored' = {x \in stored : x.key # key}
  /\ cacheRet' = Observe("delete", key, MapHas(cache, key), Null, MapHas(cache, key))
  /\ UNCHANGED <<clock, stats, getCalls, rlVars, apiVars, keyVars, twin, served, lastDenied, retry>>

\* a clear that keeps the counters
ClearKeepsStats ==
  /\ cache' = <<>>
  /\ stored' = {}
  /\ cacheRet' = Observe("clear", NoKey, FALSE, Null, FALSE)
  /\ UNCHANGED <<clock, stats, getCalls, rlVars, apiVars, keyVars, twin, served, lastDenied, retry>>

Clear ==
  /\ cache' = <<>>
  /\ stats' = [hits |-> 0, misses |-> 0]
  /\ getCalls' = 0
  /\ stored' = {}
  /\ cacheRet' = Observe("clear", NoKey, FALSE, Null, FALSE)
  /\ UNCHANGED <<clock, rlVars, apiVars, keyVars, twin, served, lastDenied, retry>>

Cleanup ==
  /\ cache' = cacheCleanup(cache, clock)
  /\ cacheRet' = Observe("cleanup", NoKey, FALSE, Null, FALSE)
  /\ UNCHANGED <<clock, stats, getCalls, stored, rlVars, apiVars, keyVars, twin, served, lastDenied, retry>>

\* the setInterval callback of startCleanup, when it has something to remove
CleanupTimer ==
  /\ cache' = cacheCleanup(cache, clock)
  /\ cache' # cache
  /\ UNCHANGED <<clock, stats, getCalls, cacheRet, stored, rlVars, apiVars, keyVars, twin, served, lastDenied, retry>>

(***************************************************************************)
(* Two MemoryCache instances side by side: every call is made on both at   *)
(* the same Date.now(); the sweep runs on the second only.                 *)
(***************************************************************************)
\* evicted: a set call found the Map of either instance full
NoTwin ==
  [cache |-> <<>>, stats |-> [hits |-> 0, misses |-> 0], ret |-> NoCall, evicted |-> FALSE]

\* set would call evictOldest
SetEvicts(m, key) == Len(m) >= maxSize /\ ~MapHas(m, key)

TwinTick ==
  /\ clock < MaxCacheClock
  /\ clock' = clock + 1
  /\ cacheRet' = NoCall
  /\ twin' = [twin EXCEPT !.ret = NoCall]
  /\ UNCHANGED <<cache, stats, getCalls, stored, rlVars, apiVars, keyVars, served, lastDenied, retry>>

TwinSet(key, value, ttl) ==
  /\ cache' = cacheSet(cache, key, value, ttl, clock, clock)
  /\ stored' = StoredAfterSet(stored, cache, cache', key)
  /\ cacheRet' = Observe("set", key, FALSE, value, MapHas(cache, key))
  /\ twin' = [twin EXCEPT
                !.cache = cacheSet(twin.cache, key, value, ttl, clock, clock),
                !.ret = Observe("set", key, FALSE, value, MapHas(twin.cache, key)),
                !.evicted = @ \/ SetEvicts(cache, key) \/ SetEvicts(twin.cache, key)]
  /\ UNCHANGED <<clock, stats, getCalls, rlVars, apiVars, keyVars, served, lastDenied, retry>>

TwinGet(key) ==
  /\ stats.hits + stats.misses < MaxGets
  /\ LET r == cacheGet(cache, stats, key, clock)
         t == cacheGet(twin.cache, twin.stats, key, clock)
     IN /\ cache' = r.cache
        /\ stats' = r.stats
        /\ getCalls' = getCalls + 1
        /\ cacheRet' = Observe("get", key, r.found, r.data, MapHas(cache, key))
        /\ twin' = [twin EXCEPT
                      !.cache = t.cache, !.stats = t.stats,
                      !.ret = Observe("get", key, t.found, t.data, MapHas(twin.cache, key))]
  /\ UNCHANGED <<clock, stored, rlVars, apiVars, keyVars, served, lastDenied, retry>>

TwinHas(key) ==
  /\ LET r == cacheHas(cache, key, clock)
         t == cacheHas(twin.cache, key, clock)
     IN /\ cache' = r.cache
        /\ cacheRet' = Observe("has", key, r.found, Null, MapHas(cache, key))
        /\ twin' = [twin EXCEPT
                      !.cache = t.cache,
                      !.ret = Observe("has", key, t.found, Null, MapHas(twin.cache, key))]
  /\ UNCHANGED <<clock, stats, getCalls, stored, rlVars, apiVars, keyVars, served, lastDenied, retry>>

TwinDelete(key) ==
  /\ cache' = MapDelete(cache, key)
  /\ stored' = {x \in stored : x.key # key}
  /\ cacheRet' = Observe("delete", key, MapHas(cache, key), Null, MapHas(cache, key))
  /\ twin' = [twin EXCEPT
                !.cache = MapDelete(twin.cache, key),
                !.ret = Observe("delete", key, MapHas(twin.cache, key), Null,
                                MapHas(twin.cache, key))]
  /\ UNCHANGED <<clock, stats, getCalls, rlVars, apiVars, keyVars, served, lastDenied, retry>>

\* the sweep of the second instance, when it has something to remove
TwinSweep ==
  /\ twin' = [twin EXCEPT !.cache = cacheCleanup(twin.cache, clock)]
  /\ twin' # twin
  /\ UNCHANGED <<clock, cacheVars, rlVars, apiVars, keyVars, served, lastDenied, retry>>

(***************************************************************************)
(* ratelimit.ts                                                            *)
(***************************************************************************)
getBucket(bs, key, limit, windowMs) ==
  IF key \in DOMAIN bs
  THEN [bs EXCEPT ![key].limit = limit, ![key].windowMs = windowMs]
  ELSE bs @@ (key :> [timestamps |-> <<>>, limit |-> limit, windowMs |-> windowMs])

\* a denied call that records its timestamp all the same
rateLimitRecordsDenied(bs, key, limit, windowMs, now) ==
  LET b1 == getBucket(bs, key, limit, windowMs)
      kept == SelectSeq(b1[key].timestamps, LAMBDA t : now - t < windowMs)
  IN IF Len(kept) >= limit
     THEN [buckets |-> [b1 EXCEPT ![key].timestamps = Append(kept, now)],
           allowed |-> FALSE, remaining |-> 0,
           resetMs |-> IF Len(kept) = 0 THEN NaN ELSE Max(0, windowMs - (now - kept[1]))]
     ELSE [buckets |-> [b1 EXCEPT ![key].timestamps = Append(kept, now)],
           allowed |-> TRUE, remaining |-> Max(0, limit - (Len(kept) + 1)),
           resetMs |-> windowMs]

\* a call that decides by the limit and window the bucket was created or last called with
rateLimitUsesStoredConfig(bs, key, limit, windowMs, now) ==
  LET b1 == getBucket(bs, key, limit, windowMs)
      oldLimit == IF key \in DOMAIN bs THEN bs[key].limit ELSE limit
      oldWindow == IF key \in DOMAIN bs THEN bs[key].windowMs ELSE windowMs
      kept == SelectSeq(b1[key].timestamps, LAMBDA t : now - t < oldWindow)
  IN IF Len(kept) >= oldLimit
     THEN [buckets |-> [b1 EXCEPT ![key].timestamps = kept],
           allowed |-> FALSE, remaining |-> 0,
           resetMs |-> IF Len(kept) = 0 THEN NaN ELSE Max(0, oldWindow - (now - kept[1]))]
     ELSE [buckets |-> [b1 EXCEPT ![key].timestamps = Append(kept, now)],
           allowed |-> TRUE, remaining |-> Max(0, oldLimit - (Len(kept) + 1)),
           resetMs |-> oldWindow]

rateLimitAdmitsAtLimit(bs, key, limit, windowMs, now) ==
  LET b1 == getBucket(bs, key, limit, windowMs)
      kept == SelectSeq(b1[key].timestamps, LAMBDA t : now - t < windowMs)
  IN IF Len(kept) > limit
     THEN [buckets |-> [b1 EXCEPT ![key].timestamps = kept],
           allowed |-> FALSE, remaining |-> 0,
           resetMs |-> IF Len(kept) = 0 THEN NaN ELSE Max(0, windowMs - (now - kept[1]))]
     ELSE [buckets |-> [b1 EXCEPT ![key].timestamps = Append(kept, now)],
           allowed |-> TRUE, remaining |-> Max(0, limit - (Len(kept) + 1)),
           resetMs |-> windowMs]

rateLimitKeepsWindowEdge(bs, key, limit, windowMs, now) ==
  LET b1 == getBucket(bs, key, limit, windowMs)
      kept == SelectSeq(b1[key].timestamps, LAMBDA t : now - t <= windowMs)
  IN IF Len(kept) >= limit
     THEN [buckets |-> [b1 EXCEPT ![key].timestamps = kept],
           allowed |-> FALSE, remaining |-> 0,
           resetMs |-> IF Len(kept) = 0 THEN NaN ELSE Max(0, windowMs - (now - kept[1]))]
     ELSE [buckets |-> [b1 EXCEPT ![key].timestamps = Append(kept, now)],
           allowed |-> TRUE, remaining |-> Max(0, limit - (Len(kept) + 1)),
           resetMs |-> windowMs]

\* resetMs one millisecond short of the time the oldest timestamp leaves the window
rateLimitResetsOneEarly(bs, key, limit, windowMs, now) ==
  LET b1 == getBucket(bs, key, limit, windowMs)
      kept == SelectSeq(b1[key].timestamps, LAMBDA t : now - t < windowMs)
  IN IF Len(kept) >= limit
     THEN [buckets |-> [b1 EXCEPT ![key].timestamps = kept],
           allowed |-> FALSE, remaining |-> 0,
           resetMs |-> IF Len(kept) = 0 THEN NaN ELSE Max(0, windowMs - (now - kept[1]) - 1)]
     ELSE [buckets |-> [b1 EXCEPT ![key].timestamps = Append(kept, now)],
           allowed |-> TRUE, remaining |-> Max(0, limit - (Len(kept) + 1)),
           resetMs |-> windowMs]

\* rateLimit({key, limit, windowMs}) at Date.now() = now: the new buckets and the result
rateLimit(bs, key, limit, windowMs, now) ==
  LET b1 == getBucket(bs, key, limit, windowMs)
      kept == SelectSeq(b1[key].timestamps, LAMBDA t : now - t < windowMs)
  IN IF Len(kept) >= limit
     THEN [buckets |-> [b1 EXCEPT ![key].timestamps = kept],
           allowed |-> FALSE, remaining |-> 0,
           resetMs |-> IF Len(kept) = 0 THEN NaN ELSE Max(0, windowMs - (now - kept[1]))]
     ELSE [buckets |-> [b1 EXCEPT ![key].timestamps = Append(kept, now)],
           allowed |-> TRUE, remaining |-> Max(0, limit - (Len(kept) + 1)),
           resetMs |-> windowMs]

\* the effect of one rateLimit call with result r on the buckets and their history
LimiterEffect(key, limit, windowMs, r) ==
  /\ buckets' = r.buckets
  /\ admitted' = IF r.allowed THEN [admitted EXCEPT ![key] = Append(@, clock)] ELSE admitted
  /\ fixedCfg' = [fixedCfg EXCEPT ![key] =
                    @ /\ (key \in DOMAIN buckets =>
                            buckets[key].limit = limit /\ buckets[key].windowMs = windowMs)]

\* one rateLimit call and what it returned
RateLimitCall(key, limit, windowMs) ==
  /\ LET r == rateLimit(buckets, key, limit, windowMs, clock)
     IN /\ LimiterEffect(key, limit, windowMs, r)
        /\ rlRet' = [key |-> key, limit |-> limit, windowMs |-> windowMs,
                     allowed |-> r.allowed, remaining |-> r.remaining, resetMs |-> r.resetMs]
  /\ UNCHANGED <<clock, cacheVars, apiVars, keyVars, twin, served, retry>>

\* the call, in the specifications that keep no record of the denials
RateLimit(key, limit, windowMs) ==
  /\ RateLimitCall(key, limit, windowMs)
  /\ UNCHANGED lastDenied

(***************************************************************************)
(* Cache key generators (lib/cache)                                        *)
(***************************************************************************)
\* a number as a 32-bit signed integer from its two 16-bit halves
Int32Of(hi, lo) == IF hi >= 32768 THEN (hi - 65536) * 65536 + lo ELSE hi * 65536 + lo

\* the halves of the two's complement of a 32-bit signed integer
HiOf(h) == IF h >= 0 THEN h \div 65536 ELSE ((h + 2147483647) + 1) \div 65536 + 32768
LoOf(h) == IF h >= 0 THEN h % 65536 ELSE ((h + 2147483647) + 1) % 65536

\* hash = (hash << 5) - hash + char; hash = hash & hash: 31 * hash + char wrapped to 32 bits
hashStep(h, char) ==
  LET lo == 31 * LoOf(h) + char
      hi == 31 * HiOf(h) + lo \div 65536
  IN Int32Of(hi % 65536, lo % 65536)

RECURSIVE hashLoop(_, _, _)
hashLoop(str, i, hash) ==
  IF i > Len(str) THEN hash ELSE hashLoop(str, i + 1, hashStep(hash, str[i]))

Digits36 ==
  <<"0", "1", "2", "3", "4", "5", "6", "7", "8", "9", "a", "b", "c", "d", "e", "f", "g", "h",
    "i", "j", "k", "l", "m", "n", "o", "p", "q", "r", "s", "t", "u", "v", "w", "x", "y", "z">>

\* Number.toString(36) of a non-negative integer
RECURSIVE toString36(_)
toString36(n) ==
  IF n < 36 THEN Digits36[n + 1] ELSE toString36(n \div 36) \o Digits36[(n % 36) + 1]

\* simpleHash of a string given as its UTF-16 code units; Math.abs(-2^31) is 2^31 = "zik0zk"
simpleHash(str) ==
  LET hash == hashLoop(str, 1, 0)
  IN IF hash = (-2147483647) - 1 THEN "zik0zk"
     ELSE toString36(IF hash < 0 THEN -hash ELSE hash)

\* parts.join(':') of parts already converted to strings
RECURSIVE joinParts(_)
joinParts(parts) ==
  IF parts = <<>> THEN ""
  ELSE IF Len(parts) = 1 THEN parts[1]
  ELSE parts[1] \o ":" \o joinParts(Tail(parts))

\* the parts run together with nothing between them
RECURSIVE concatParts(_)
concatParts(parts) == IF parts = <<>> THEN "" ELSE parts[1] \o concatParts(Tail(parts))

\* a key with no delimiter between the parts
generateCacheKeyNoDelimiter(prefix, parts) == prefix \o ":" \o concatParts(parts)

generateCacheKey(prefix, parts) == prefix \o ":" \o joinParts(parts)

\* the window size put into the key as it comes, with no default
generateQueryCacheKeyNoDefault(question, topK, enableRerank, enableLLMRerank, sentenceWindowSize) ==
  generateCacheKey("query",
    << simpleHash(question),
       ToString(topK),
       IF enableRerank = 1 THEN "1" ELSE "0",
       IF enableLLMRerank = 1 THEN "1" ELSE "0",
       IF sentenceWindowSize = Undefined THEN "undefined" ELSE ToString(sentenceWindowSize) >>)

\* the second flag left out of the key
generateQueryCacheKeyDropsFlag(question, topK, enableRerank, enableLLMRerank, sentenceWindowSize) ==
  generateCacheKey("query",
    << simpleHash(question),
       ToString(topK),
       IF enableRerank = 1 THEN "1" ELSE "0",
       ToString(IF sentenceWindowSize \in {Undefined, 0} THEN 3 ELSE sentenceWindowSize) >>)

\* topK left out of the key
generateQueryCacheKeyIgnoresTopK(question, topK, enableRerank, enableLLMRerank, sentenceWindowSize) ==
  generateCacheKey("query",
    << simpleHash(question),
       IF enableRerank = 1 THEN "1" ELSE "0",
       IF enableLLMRerank = 1 THEN "1" ELSE "0",
       ToString(IF sentenceWindowSize \in {Undefined, 0} THEN 3 ELSE sentenceWindowSize) >>)

\* optional arguments: Undefined when omitted; the flags are 1 (true) or 0 (false)
generateQueryCacheKey(question, topK, enableRerank, enableLLMRerank, sentenceWindowSize) ==
  generateCacheKey("query",
    << simpleHash(question),
       ToString(topK),
       IF enableRerank = 1 THEN "1" ELSE "0",
       IF enableLLMRerank = 1 THEN "1" ELSE "0",
       ToString(IF sentenceWindowSize \in {Undefined, 0} THEN 3 ELSE sentenceWindowSize) >>)

\* no key generator call
NoKeyArgs == [fn |-> "none"]

\* the questions hashed: "abc", "abd", "Aaa", "BBa" and "zzzzzzz" (a hash that wraps)
Questions ==
  {<<97, 98, 99>>, <<97, 98, 100>>, <<65, 97, 97>>, <<66, 66, 97>>, [i \in 1..7 |-> 122]}
TopKs == {1, 5, 6, 50}
Flags == {Undefined, 0, 1}
WindowSizes == {Undefined, 0, 1, 3, 10}

QueryCalls ==
  [fn : {"query"}, question : Questions, topK : TopKs, enableRerank : Flags,
   enableLLMRerank : Flags, sentenceWindowSize : WindowSizes]

\* a part is a string, given as its characters, or a number
StringPart(chars) == [isNumber |-> FALSE, chars |-> chars, n |-> 0]
NumberPart(n) == [isNumber |-> TRUE, chars |-> <<>>, n |-> n]

\* "a", "b", "a:b", "", the number 1 and the string "1"
KeyParts ==
  {StringPart(<<"a">>), StringPart(<<"b">>), StringPart(<<"a", ":", "b">>), StringPart(<<>>),
   NumberPart(1), StringPart(<<"1">>)}

PartLists == {<<>>} \cup {<<p>> : p \in KeyParts} \cup {<<p, q>> : p, q \in KeyParts}

KeyCalls == [fn : {"key"}, prefix : {"p", "q"}, parts : PartLists]

\* String(part), as Array.prototype.join converts each element
partString(part) == IF part.isNumber THEN ToString(part.n) ELSE concatParts(part.chars)

partStrings(parts) == [i \in 1..Len(parts) |-> partString(parts[i])]

\* generateQueryCacheKey is called with the arguments drawn
GenerateQueryCacheKey ==
  /\ keyArgs.fn = "query" /\ keyOut = ""
  /\ keyOut' = generateQueryCacheKey(keyArgs.question, keyArgs.topK, keyArgs.enableRerank,
                                      keyArgs.enableLLMRerank, keyArgs.sentenceWindowSize)
  /\ UNCHANGED <<clock, cacheVars, rlVars, apiVars, keyArgs, twin, served, lastDenied, retry>>

\* generateCacheKey is called with the arguments drawn
GenerateCacheKey ==
  /\ keyArgs.fn = "key" /\ keyOut = ""
  /\ keyOut' = generateCacheKey(keyArgs.prefix, partStrings(keyArgs.parts))
  /\ UNCHANGED <<clock, cacheVars, rlVars, apiVars, keyArgs, twin, served, lastDenied, retry>>

(***************************************************************************)
(* Errors (lib/errorHandler)                                               *)
(***************************************************************************)
AppError(type, statusCode) == [app |-> TRUE, type |-> type, statusCode |-> statusCode]
RateLimitError == AppError("RATE_LIMIT", 429)
FileUploadError == AppError("FILE_UPLOAD", 400)
ExternalServiceError == AppError("EXTERNAL_SERVICE", 502)
\* any error that is no BaseError and has no type and statusCode: ZodError, SyntaxError,
\* TypeError, a rejected fetch
OtherError == [app |-> FALSE, type |-> "Error", statusCode |-> 0]

isAppError(error) == error.app

handleApiError(error) ==
  IF isAppError(error)
  THEN [status |-> error.statusCode, type |-> error.type]
  ELSE [status |-> 500, type |-> "INTERNAL_SERVER"]

(***************************************************************************)
(* retryWithBackoff (lib/errorHandler).  Delays are in milliseconds.       *)
(***************************************************************************)
MaxRetryArg == 2       \* maxRetries arguments of retryWithBackoff are -1..MaxRetryArg

RetryCounts == -1..MaxRetryArg
BaseDelays == {10, 20}
MaxDelays == {30, 50}
ValidationError == AppError("VALIDATION", 400)
AuthenticationError == AppError("AUTHENTICATION", 401)
AuthorizationError == AppError("AUTHORIZATION", 403)
NotFoundError == AppError("NOT_FOUND", 404)
\* what an attempt can throw
OperationErrors ==
  {ValidationError, AuthenticationError, AuthorizationError, NotFoundError,
   ExternalServiceError, OtherError}
NoError == [app |-> FALSE, type |-> "undefined", statusCode |-> 0]
\* the types after which the loop breaks
NoRetryTypes == {"VALIDATION", "AUTHENTICATION", "AUTHORIZATION", "NOT_FOUND"}

Min(a, b) == IF a <= b THEN a ELSE b

\* Math.random() * 0.1 * delay, in whole milliseconds: less than a tenth of the delay
Jitters(delay) == {j \in 0..delay : j = 0 \/ 10 * j < delay}

\* pc: idle, call (operation() is awaited), wait (the timer runs), returned, thrown;
\* calls counts the invocations of operation, last is what the latest one did and
\* threw the error it rejected with
IdleRetry ==
  [pc |-> "idle", maxRetries |-> 0, baseDelay |-> 0, maxDelay |-> 0, attempt |-> 0,
   calls |-> 0, lastError |-> NoError, last |-> "none", threw |-> NoError, result |-> Null,
   delay |-> 0, jitter |-> 0]

\* the call up to the first await: the loop is entered, or not when 0 > maxRetries
RetryStart(maxRetries, baseDelay, maxDelay) ==
  /\ retry.pc = "idle"
  /\ retry' = [IdleRetry EXCEPT !.maxRetries = maxRetries, !.baseDelay = baseDelay,
                                !.maxDelay = maxDelay,
                                !.pc = IF 0 <= maxRetries THEN "call" ELSE "thrown"]
  /\ UNCHANGED <<clock, cacheVars, rlVars, apiVars, keyVars, twin, served, lastDenied>>

\* every error retried, whatever its type
RetryFailsRetriesAll(error) ==
  /\ retry.pc = "call"
  /\ LET r == [retry EXCEPT !.calls = @ + 1, !.lastError = error, !.last = "error",
                            !.threw = error]
         delay == Min(r.baseDelay * 2^r.attempt, r.maxDelay)
     IN IF r.attempt = r.maxRetries
        THEN retry' = [r EXCEPT !.pc = "thrown"]
        ELSE \E jitter \in Jitters(delay) :
               retry' = [r EXCEPT !.pc = "wait", !.delay = delay, !.jitter = jitter]
  /\ UNCHANGED <<clock, cacheVars, rlVars, apiVars, keyVars, twin, served, lastDenied>>

\* operation() rejects with error: the catch block, up to the await of the timer or
\* the throw after the loop
RetryFails(error) ==
  /\ retry.pc = "call"
  /\ LET r == [retry EXCEPT !.calls = @ + 1, !.lastError = error, !.last = "error",
                            !.threw = error]
         delay == Min(r.baseDelay * 2^r.attempt, r.maxDelay)
     IN IF r.attempt = r.maxRetries
           \/ (isAppError(error) /\ error.type \in NoRetryTypes)
        THEN retry' = [r EXCEPT !.pc = "thrown"]
        ELSE \E jitter \in Jitters(delay) :
               retry' = [r EXCEPT !.pc = "wait", !.delay = delay, !.jitter = jitter]
  /\ UNCHANGED <<clock, cacheVars, rlVars, apiVars, keyVars, twin, served, lastDenied>>

\* operation() resolves with value: return await operation()
RetrySucceeds(value) ==
  /\ retry.pc = "call"
  /\ retry' = [retry EXCEPT !.calls = @ + 1, !.last = "ok", !.threw = NoError,
                            !.result = value, !.pc = "returned"]
  /\ UNCHANGED <<clock, cacheVars, rlVars, apiVars, keyVars, twin, served, lastDenied>>

\* the attempt counter left as it is
RetryWakeKeepsAttempt ==
  /\ retry.pc = "wait"
  /\ retry' = [retry EXCEPT !.pc = IF retry.attempt <= retry.maxRetries THEN "call" ELSE "thrown"]
  /\ UNCHANGED <<clock, cacheVars, rlVars, apiVars, keyVars, twin, served, lastDenied>>

\* the timer fires: attempt++, the loop test, the next operation() call
RetryWake ==
  /\ retry.pc = "wait"
  /\ retry' = [retry EXCEPT !.attempt = @ + 1,
                            !.pc = IF retry.attempt + 1 <= retry.maxRetries THEN "call" ELSE "thrown"]
  /\ UNCHANGED <<clock, cacheVars, rlVars, apiVars, keyVars, twin, served, lastDenied>>

(***************************************************************************)
(* The route handlers.  A request is a record; pc is the await it is at.   *)
(***************************************************************************)
MaxReqs == 2           \* requests handled in one behaviour
ChatLimit == 1         \* limit of chat:<ip> (60), scaled
StreamLimit == 1       \* limit of chat_stream:<ip> (60), scaled
UploadLimit == 1       \* limit of upload:<ip> (20), scaled
WindowMs == 1          \* windowMs of the three endpoints (60000), scaled to ticks
ResponseTtl == 1       \* ttl of the cached chat responses (300000), scaled to ticks
MaxApiClock == 2       \* the clock of the handlers runs 0..MaxApiClock
MaxFiles == 2          \* MAX_FILES (12), scaled
MaxFileSize == 2       \* the per-file limit (25 MB), scaled
MaxTotalSize == 3      \* MAX_TOTAL_SIZE (100 MB), scaled

Reqs == 1..MaxReqs
IPs == {"ip1"}
Answers == {"ans1", "ans2"}
Outcomes == {"ok", "notOk", "throw"}
AllowedExtensions == {".pdf", ".docx", ".html", ".htm", ".txt", ".md"}

ChatBody(question, topK, enableRerank, enableLLMRerank, sentenceWindowSize) ==
  [question |-> question, topK |-> topK, enableRerank |-> enableRerank,
   enableLLMRerank |-> enableLLMRerank, sentenceWindowSize |-> sentenceWindowSize]

NoBody == ChatBody(<<>>, Undefined, Undefined, Undefined, Undefined)

\* the request bodies sent: "abc", "abd", and "ab", which is too short
Bodies ==
  { ChatBody(<<97, 98, 99>>, Undefined, Undefined, Undefined, Undefined),
    ChatBody(<<97, 98, 100>>, Undefined, Undefined, Undefined, Undefined),
    ChatBody(<<97, 98>>, Undefined, Undefined, Undefined, Undefined) }

\* bodySchema.parse succeeds
bodySchema(b) ==
  /\ Len(b.question) >= 3 /\ Len(b.question) <= 2000
  /\ b.topK = Undefined \/ (b.topK >= 1 /\ b.topK <= 50)
  /\ b.sentenceWindowSize = Undefined \/ (b.sentenceWindowSize >= 1 /\ b.sentenceWindowSize <= 10)

\* a form entry: a File with its size, the extension and the pattern test of its name,
\* or a string field
FormFile(name, size, ext, suspicious) ==
  [isFile |-> TRUE, name |-> name, size |-> size, ext |-> ext, suspicious |-> suspicious]

\* the forms posted: none, one good file, a good file followed by an .exe, too many
\* files, a file over the size limit, a total over the limit, a suspicious name
UploadForms ==
  { <<>>,
    <<FormFile("a.pdf", 1, ".pdf", FALSE)>>,
    <<FormFile("a.pdf", 1, ".pdf", FALSE), FormFile("b.exe", 1, ".exe", FALSE)>>,
    [i \in 1..(MaxFiles + 1) |-> FormFile("a.pdf", 1, ".pdf", FALSE)],
    <<FormFile("big.pdf", MaxFileSize + 1, ".pdf", FALSE)>>,
    <<FormFile("c.txt", MaxFileSize, ".txt", FALSE), FormFile("d.md", MaxFileSize, ".md", FALSE)>>,
    <<FormFile("<script.pdf", 1, ".pdf", TRUE)>> }

\* a form entry that is a string: a text field sent under the name "files"
FormField == [isFile |-> FALSE, name |-> "", size |-> 0, ext |-> "", suspicious |-> FALSE]

\* the forms posted to the upload endpoint alone: those above and a form whose only
\* entry is a text field
UploadInputs == UploadForms \cup {<<FormField>>}

\* the limit and windowMs written in the three rateLimit calls; the limiter of the model
\* runs on their scaled values (UploadLimit, ChatLimit, StreamLimit, WindowMs)
UploadQuota == 20
StreamQuota == 60
ChatQuota == 60
QuotaWindowMs == 60000

Quota(limit, windowMs) == [limit |-> limit, windowMs |-> windowMs]

\* the headers of the responses the handlers build
JsonHeaders == {<<"Content-Type", "application/json">>}
EventHeaders == {<<"Content-Type", "text/event-stream">>}
StreamHeaders ==
  {<<"Content-Type", "text/event-stream">>, <<"Cache-Control", "no-cache">>,
   <<"Connection", "keep-alive">>}

\* quota: the arguments of the request's rateLimit call; headers: those of the response
IdleReq ==
  [endpoint |-> "none", pc |-> "idle", ip |-> "", body |-> NoBody, form |-> <<>>, idx |-> 0,
   totalSize |-> 0, saved |-> <<>>, allowed |-> FALSE, key |-> "", hit |-> FALSE,
   calls |-> 0, gets |-> 0, sets |-> 0, removed |-> 0, status |-> 0, type |-> "", data |-> Null,
   quota |-> Quota(0, 0), headers |-> {}]

\* requests are numbered in the order they arrive
CanStart(r) == reqs[r].pc = "idle" /\ (r > 1 => reqs[r - 1].pc # "idle")

Respond(req, status, type, data) ==
  [req EXCEPT !.pc = "done", !.status = status, !.type = type, !.data = data,
              !.headers = IF req.endpoint = "stream" THEN EventHeaders ELSE JsonHeaders]

\* catch (error) { return handleApiError(error, ...) }
Caught(req, error) ==
  LET h == handleApiError(error) IN Respond(req, h.status, h.type, Null)

\* an exception leaving a handler that has no try/catch: the framework answers 500
Uncaught(req) == [Respond(req, 500, "uncaught", Null) EXCEPT !.headers = {}]

(***************************************************************************)
(* POST /api/chat                                                          *)
(***************************************************************************)
\* the check split from the append by an await: the decision does not see the timestamps
\* of the requests admitted since and still waiting for their body
ChatStartChecksBeforeAwait(r, ip, body) ==
  /\ CanStart(r)
  /\ LET key == "chat:" \o ip
         b1 == getBucket(buckets, key, ChatLimit, WindowMs)
         kept == SelectSeq(b1[key].timestamps, LAMBDA t : clock - t < WindowMs)
         waiting == Cardinality({q \in Reqs : reqs[q].endpoint = "chat" /\ reqs[q].ip = ip
                                                /\ reqs[q].pc = "body"})
         ok == Len(kept) - waiting < ChatLimit
         rl == [buckets |-> [b1 EXCEPT ![key].timestamps = IF ok THEN Append(kept, clock) ELSE kept],
                allowed |-> ok]
         req == [IdleReq EXCEPT !.endpoint = "chat", !.ip = ip, !.body = body,
                                !.allowed = rl.allowed,
                                !.quota = Quota(ChatQuota, QuotaWindowMs)]
     IN /\ LimiterEffect(key, ChatLimit, WindowMs, rl)
        /\ reqs' = [reqs EXCEPT ![r] =
                      IF rl.allowed THEN [req EXCEPT !.pc = "body"]
                      ELSE Caught(req, RateLimitError)]
  /\ UNCHANGED <<clock, cacheVars, rlRet, uploadDir, keyVars, twin, served, lastDenied, retry>>

\* the chat quota one request too generous
ChatStartAdmitsOneMore(r, ip, body) ==
  /\ CanStart(r)
  /\ LET key == "chat:" \o ip
         rl == rateLimit(buckets, key, ChatLimit + 1, WindowMs, clock)
         req == [IdleReq EXCEPT !.endpoint = "chat", !.ip = ip, !.body = body,
                                !.allowed = rl.allowed,
                                !.quota = Quota(ChatQuota, QuotaWindowMs)]
     IN /\ LimiterEffect(key, ChatLimit + 1, WindowMs, rl)
        /\ reqs' = [reqs EXCEPT ![r] =
                      IF rl.allowed THEN [req EXCEPT !.pc = "body"]
                      ELSE Caught(req, RateLimitError)]
  /\ UNCHANGED <<clock, cacheVars, rlRet, uploadDir, keyVars, twin, served, lastDenied, retry>>

\* up to the first await (req.json()): the rate-limit check
ChatStart(r, ip, body) ==
  /\ CanStart(r)
  /\ LET key == "chat:" \o ip
         rl == rateLimit(buckets, key, ChatLimit, WindowMs, clock)
         req == [IdleReq EXCEPT !.endpoint = "chat", !.ip = ip, !.body = body,
                                !.allowed = rl.allowed,
                                !.quota = Quota(ChatQuota, QuotaWindowMs)]
     IN /\ LimiterEffect(key, ChatLimit, WindowMs, rl)
        /\ reqs' = [reqs EXCEPT ![r] =
                      IF rl.allowed THEN [req EXCEPT !.pc = "body"]
                      ELSE Caught(req, RateLimitError)]
  /\ UNCHANGED <<clock, cacheVars, rlRet, uploadDir, keyVars, twin, served, lastDenied, retry>>

\* lookups coalesced: a request whose key is being fetched by another one joins that call
\* and makes none of its own
ChatLookupCoalesces(r) ==
  /\ reqs[r].endpoint = "chat" /\ reqs[r].pc = "body"
  /\ LET req == reqs[r]
         b == req.body
         cacheKey == generateQueryCacheKey(b.question, IF b.topK \in {Undefined, 0} THEN 5 ELSE b.topK,
                                           b.enableRerank, b.enableLLMRerank, b.sentenceWindowSize)
         g == cacheGet(cache, stats, cacheKey, clock)
         joins == \E q \in DOMAIN reqs : q # r /\ reqs[q].pc = "fetch" /\ reqs[q].key = cacheKey
     IN IF ~bodySchema(b)
        THEN /\ reqs' = [reqs EXCEPT ![r] = Caught(req, OtherError)]
             /\ UNCHANGED <<cache, stats, getCalls>>
        ELSE /\ cache' = g.cache
             /\ stats' = g.stats
             /\ getCalls' = getCalls + 1
             /\ reqs' = [reqs EXCEPT ![r] =
                           IF g.found
                           THEN Respond([req EXCEPT !.key = cacheKey, !.gets = 1, !.hit = TRUE],
                                        200, "", g.data)
                           ELSE [req EXCEPT !.key = cacheKey, !.gets = 1,
                                            !.calls = IF joins THEN 0 ELSE 1,
                                            !.removed = Len(cache) - Len(g.cache),
                                            !.pc = "fetch"]]
  /\ UNCHANGED <<clock, cacheRet, stored, rlVars, uploadDir, keyVars, twin, lastDenied, retry>>

\* from req.json() to the await of fetch: validation, key derivation, cache lookup
ChatLookupStep(r) ==
  /\ reqs[r].endpoint = "chat" /\ reqs[r].pc = "body"
  /\ LET req == reqs[r]
         b == req.body
         cacheKey == generateQueryCacheKey(b.question, IF b.topK \in {Undefined, 0} THEN 5 ELSE b.topK,
                                           b.enableRerank, b.enableLLMRerank, b.sentenceWindowSize)
         g == cacheGet(cache, stats, cacheKey, clock)
     IN IF ~bodySchema(b)
        THEN /\ reqs' = [reqs EXCEPT ![r] = Caught(req, OtherError)]
             /\ UNCHANGED <<cache, stats, getCalls>>
        ELSE /\ cache' = g.cache
             /\ stats' = g.stats
             /\ getCalls' = getCalls + 1
             /\ reqs' = [reqs EXCEPT ![r] =
                           IF g.found
                           THEN Respond([req EXCEPT !.key = cacheKey, !.gets = 1, !.hit = TRUE],
                                        200, "", g.data)
                           ELSE [req EXCEPT !.key = cacheKey, !.gets = 1, !.calls = 1,
                                            !.removed = Len(cache) - Len(g.cache),
                                            !.pc = "fetch"]]
  /\ UNCHANGED <<clock, cacheRet, stored, rlVars, uploadDir, keyVars, twin, lastDenied, retry>>

\* the lookup left out: every valid request goes to the backend
ChatLookupSkipsCache(r) ==
  /\ reqs[r].endpoint = "chat" /\ reqs[r].pc = "body"
  /\ reqs' = [reqs EXCEPT ![r] =
                IF bodySchema(@.body) THEN [@ EXCEPT !.calls = 1, !.pc = "fetch"]
                ELSE Caught(@, OtherError)]
  /\ UNCHANGED <<clock, cacheVars, rlVars, uploadDir, keyVars, twin, served, lastDenied, retry>>

\* the step, in the specifications that keep no history of the responses
ChatLookup(r) == ChatLookupStep(r) /\ UNCHANGED served

\* the answer stored with a ttl of zero
ChatFetchStoresWithoutTtl(r, outcome, answer, elapsed, ttl, maxNow) ==
  /\ reqs[r].endpoint = "chat" /\ reqs[r].pc = "fetch"
  /\ clock + elapsed <= maxNow
  /\ LET req == reqs[r]
     IN IF outcome = "ok"
        THEN /\ elapsed > 0 => (Len(cache) >= maxSize /\ ~MapHas(cache, req.key))
             /\ cache' = cacheSet(cache, req.key, answer, 0, clock, clock + elapsed)
             /\ clock' = clock + elapsed
             /\ reqs' = [reqs EXCEPT ![r] = Respond([req EXCEPT !.sets = 1], 200, "", answer)]
        ELSE /\ elapsed = 0
             /\ reqs' = [reqs EXCEPT ![r] =
                           Caught(req, IF outcome = "notOk" THEN ExternalServiceError
                                       ELSE OtherError)]
             /\ UNCHANGED <<clock, cache>>
  /\ UNCHANGED <<stats, getCalls, cacheRet, stored, rlVars, uploadDir, keyVars, twin, lastDenied, retry>>

\* from the backend's answer (fetch and resp.json()) to the response; elapsed as in Set;
\* ttl is the scaled ttl of responseCache.set and maxNow the last clock value
ChatFetchWith(r, outcome, answer, elapsed, ttl, maxNow) ==
  /\ reqs[r].endpoint = "chat" /\ reqs[r].pc = "fetch"
  /\ clock + elapsed <= maxNow
  /\ LET req == reqs[r]
     IN IF outcome = "ok"
        THEN /\ elapsed > 0 => (Len(cache) >= maxSize /\ ~MapHas(cache, req.key))
             /\ cache' = cacheSet(cache, req.key, answer, ttl, clock, clock + elapsed)
             /\ clock' = clock + elapsed
             /\ reqs' = [reqs EXCEPT ![r] = Respond([req EXCEPT !.sets = 1], 200, "", answer)]
        ELSE /\ elapsed = 0
             /\ reqs' = [reqs EXCEPT ![r] =
                           Caught(req, IF outcome = "notOk" THEN ExternalServiceError
                                       ELSE OtherError)]
             /\ UNCHANGED <<clock, cache>>
  /\ UNCHANGED <<stats, getCalls, cacheRet, stored, rlVars, uploadDir, keyVars, twin, lastDenied, retry>>

\* the answer stored whatever the backend's status
ChatFetchCachesFailures(r, outcome, answer, elapsed) ==
  /\ reqs[r].endpoint = "chat" /\ reqs[r].pc = "fetch"
  /\ elapsed = 0
  /\ cache' = cacheSet(cache, reqs[r].key, answer, ResponseTtl, clock, clock)
  /\ reqs' = [reqs EXCEPT ![r] =
                IF outcome = "ok" THEN Respond([@ EXCEPT !.sets = 1], 200, "", answer)
                ELSE Caught([@ EXCEPT !.sets = 1],
                            IF outcome = "notOk" THEN ExternalServiceError ELSE OtherError)]
  /\ UNCHANGED <<clock, stats, getCalls, cacheRet, stored, rlVars, uploadDir, keyVars, twin, served, lastDenied, retry>>

\* the handler with the ttl and the clock range of the endpoint specifications
ChatFetch(r, outcome, answer, elapsed) ==
  /\ ChatFetchWith(r, outcome, answer, elapsed, ResponseTtl, MaxApiClock)
  /\ UNCHANGED served

(***************************************************************************)
(* POST /api/chat/stream                                                   *)
(***************************************************************************)
\* the stream counted in the bucket of /api/chat
StreamStartSharesChatBucket(r, ip, body) ==
  /\ CanStart(r)
  /\ LET key == "chat:" \o ip
         rl == rateLimit(buckets, key, StreamLimit, WindowMs, clock)
         req == [IdleReq EXCEPT !.endpoint = "stream", !.ip = ip, !.body = body,
                                !.allowed = rl.allowed,
                                !.quota = Quota(StreamQuota, QuotaWindowMs)]
     IN /\ LimiterEffect(key, StreamLimit, WindowMs, rl)
        /\ reqs' = [reqs EXCEPT ![r] =
                      IF rl.allowed THEN [req EXCEPT !.pc = "body"]
                      ELSE Respond(req, 429, "", Null)]
  /\ UNCHANGED <<clock, cacheVars, rlRet, uploadDir, keyVars, twin, served, lastDenied, retry>>

StreamStart(r, ip, body) ==
  /\ CanStart(r)
  /\ LET key == "chat_stream:" \o ip
         rl == rateLimit(buckets, key, StreamLimit, WindowMs, clock)
         req == [IdleReq EXCEPT !.endpoint = "stream", !.ip = ip, !.body = body,
                                !.allowed = rl.allowed,
                                !.quota = Quota(StreamQuota, QuotaWindowMs)]
     IN /\ LimiterEffect(key, StreamLimit, WindowMs, rl)
        /\ reqs' = [reqs EXCEPT ![r] =
                      IF rl.allowed THEN [req EXCEPT !.pc = "body"]
                      ELSE Respond(req, 429, "", Null)]
  /\ UNCHANGED <<clock, cacheVars, rlRet, uploadDir, keyVars, twin, served, lastDenied, retry>>

\* from req.json() to the await of fetch
StreamParse(r) ==
  /\ reqs[r].endpoint = "stream" /\ reqs[r].pc = "body"
  /\ reqs' = [reqs EXCEPT ![r] =
                IF bodySchema(@.body) THEN [@ EXCEPT !.calls = 1, !.pc = "fetch"]
                ELSE Uncaught(@)]
  /\ UNCHANGED <<clock, cacheVars, rlVars, uploadDir, keyVars, twin, served, lastDenied, retry>>

StreamFetch(r, outcome) ==
  /\ reqs[r].endpoint = "stream" /\ reqs[r].pc = "fetch"
  /\ reqs' = [reqs EXCEPT ![r] =
                IF outcome = "ok"
                THEN [@ EXCEPT !.pc = "streaming", !.status = 200, !.headers = StreamHeaders]
                ELSE IF outcome = "notOk" THEN Respond(@, 500, "", Null)
                ELSE Uncaught(@)]
  /\ UNCHANGED <<clock, cacheVars, rlVars, uploadDir, keyVars, twin, served, lastDenied, retry>>

\* a disconnect that gives the request's place in the window back
StreamAbortReleasesSlot(r) ==
  /\ reqs[r].endpoint = "stream" /\ reqs[r].pc \in {"fetch", "streaming"}
  /\ reqs' = [reqs EXCEPT ![r] = [@ EXCEPT !.pc = "done", !.type = "aborted"]]
  /\ buckets' = [buckets EXCEPT !["chat_stream:" \o reqs[r].ip].timestamps =
                   IF @ = <<>> THEN @ ELSE SubSeq(@, 1, Len(@) - 1)]
  /\ UNCHANGED <<clock, cacheVars, rlRet, admitted, fixedCfg, uploadDir, keyVars, twin, served, lastDenied, retry>>

\* the client disconnects: req.signal aborts and the listener aborts the upstream call
StreamAbort(r) ==
  /\ reqs[r].endpoint = "stream" /\ reqs[r].pc \in {"fetch", "streaming"}
  /\ reqs' = [reqs EXCEPT ![r] = [@ EXCEPT !.pc = "done", !.type = "aborted"]]
  /\ UNCHANGED <<clock, cacheVars, rlVars, uploadDir, keyVars, twin, served, lastDenied, retry>>

\* the upstream body ends
StreamEnd(r) ==
  /\ reqs[r].endpoint = "stream" /\ reqs[r].pc = "streaming"
  /\ reqs' = [reqs EXCEPT ![r] = [@ EXCEPT !.pc = "done"]]
  /\ UNCHANGED <<clock, cacheVars, rlVars, uploadDir, keyVars, twin, served, lastDenied, retry>>

(***************************************************************************)
(* POST /api/upload                                                        *)
(***************************************************************************)
\* the result of the rate-limit check ignored
UploadStartIgnoresLimit(r, ip, form) ==
  /\ CanStart(r)
  /\ LET key == "upload:" \o ip
         rl == rateLimit(buckets, key, UploadLimit, WindowMs, clock)
     IN /\ LimiterEffect(key, UploadLimit, WindowMs, rl)
        /\ reqs' = [reqs EXCEPT ![r] =
                      [IdleReq EXCEPT !.endpoint = "upload", !.ip = ip, !.form = form,
                                      !.allowed = rl.allowed, !.pc = "form",
                                      !.quota = Quota(UploadQuota, QuotaWindowMs)]]
  /\ UNCHANGED <<clock, cacheVars, rlRet, uploadDir, keyVars, twin, served, lastDenied, retry>>

\* the upload counted in the bucket of the chat endpoint
UploadStartSharesChatBucket(r, ip, form) ==
  /\ CanStart(r)
  /\ LET key == "chat:" \o ip
         rl == rateLimit(buckets, key, ChatLimit, WindowMs, clock)
         req == [IdleReq EXCEPT !.endpoint = "upload", !.ip = ip, !.form = form,
                                !.allowed = rl.allowed,
                                !.quota = Quota(ChatQuota, QuotaWindowMs)]
     IN /\ LimiterEffect(key, ChatLimit, WindowMs, rl)
        /\ reqs' = [reqs EXCEPT ![r] =
                      IF rl.allowed THEN [req EXCEPT !.pc = "form"]
                      ELSE Caught(req, RateLimitError)]
  /\ UNCHANGED <<clock, cacheVars, rlRet, uploadDir, keyVars, twin, served, lastDenied, retry>>

UploadStart(r, ip, form) ==
  /\ CanStart(r)
  /\ LET key == "upload:" \o ip
         rl == rateLimit(buckets, key, UploadLimit, WindowMs, clock)
         req == [IdleReq EXCEPT !.endpoint = "upload", !.ip = ip, !.form = form,
                                !.allowed = rl.allowed,
                                !.quota = Quota(UploadQuota, QuotaWindowMs)]
     IN /\ LimiterEffect(key, UploadLimit, WindowMs, rl)
        /\ reqs' = [reqs EXCEPT ![r] =
                      IF rl.allowed THEN [req EXCEPT !.pc = "form"]
                      ELSE Caught(req, RateLimitError)]
  /\ UNCHANGED <<clock, cacheVars, rlRet, uploadDir, keyVars, twin, served, lastDenied, retry>>

\* the for loop over the files from entry req.idx on, up to the next await: a failed
\* check throws, a file that passes is handed to saveIncomingFile, the end of the list
\* starts the fetch of /ingest
RECURSIVE uploadLoop(_)
uploadLoop(req) ==
  IF req.idx > Len(req.form) THEN [req EXCEPT !.calls = 1, !.pc = "ingest"]
  ELSE LET f == req.form[req.idx]
       IN IF ~f.isFile THEN uploadLoop([req EXCEPT !.idx = @ + 1])
          ELSE IF f.size > MaxFileSize THEN Caught(req, FileUploadError)
          ELSE IF req.totalSize + f.size > MaxTotalSize
               THEN Caught([req EXCEPT !.totalSize = @ + f.size], FileUploadError)
          ELSE IF f.ext \notin AllowedExtensions
               THEN Caught([req EXCEPT !.totalSize = @ + f.size], FileUploadError)
          ELSE IF f.suspicious
               THEN Caught([req EXCEPT !.totalSize = @ + f.size], FileUploadError)
          ELSE [req EXCEPT !.totalSize = @ + f.size, !.pc = "save"]

\* from ensureStorage() and req.formData() to the first await of the loop
UploadForm(r) ==
  /\ reqs[r].endpoint = "upload" /\ reqs[r].pc = "form"
  /\ reqs' = [reqs EXCEPT ![r] =
                IF Len(@.form) = 0 THEN Caught(@, FileUploadError)
                ELSE IF Len(@.form) > MaxFiles THEN Caught(@, FileUploadError)
                ELSE uploadLoop([@ EXCEPT !.idx = 1])]
  /\ UNCHANGED <<clock, cacheVars, rlVars, uploadDir, keyVars, twin, served, lastDenied, retry>>

\* saveIncomingFile resolves (the file is written) or rejects; then the loop goes on
UploadSave(r, written) ==
  /\ reqs[r].endpoint = "upload" /\ reqs[r].pc = "save"
  /\ LET req == reqs[r]
         name == req.form[req.idx].name
     IN IF written
        THEN /\ uploadDir' = uploadDir \cup {name}
             /\ reqs' = [reqs EXCEPT ![r] =
                           uploadLoop([req EXCEPT !.saved = Append(@, name), !.idx = @ + 1])]
        ELSE /\ reqs' = [reqs EXCEPT ![r] = Caught(req, OtherError)]
             /\ UNCHANGED uploadDir
  /\ UNCHANGED <<clock, cacheVars, rlVars, keyVars, twin, served, lastDenied, retry>>

UploadIngest(r, outcome) ==
  /\ reqs[r].endpoint = "upload" /\ reqs[r].pc = "ingest"
  /\ reqs' = [reqs EXCEPT ![r] =
                IF outcome = "ok" THEN Respond(@, 200, "", "ingested")
                ELSE IF outcome = "notOk" THEN Caught(@, ExternalServiceError)
                ELSE Caught(@, OtherError)]
  /\ UNCHANGED <<clock, cacheVars, rlVars, uploadDir, keyVars, twin, served, lastDenied, retry>>

(***************************************************************************)
(* Specifications                                                          *)
(***************************************************************************)
\* the state after the modules are loaded, but for the requests to come and the key
\* generator's arguments
InitModules ==
  /\ clock = 0
  /\ cache = <<>>
  /\ stats = [hits |-> 0, misses |-> 0]
  /\ getCalls = 0
  /\ cacheRet = NoCall
  /\ stored = {}
  /\ buckets = <<>>
  /\ rlRet = NoLimitCall
  /\ admitted = [k \in BucketKeys |-> <<>>]
  /\ fixedCfg = [k \in BucketKeys |-> TRUE]
  /\ uploadDir = {}
  /\ twin = NoTwin
  /\ lastDenied = NoDenial
  /\ retry = IdleRetry

InitProgram ==
  /\ InitModules
  /\ reqs = [r \in Reqs |-> IdleReq]

Init ==
  /\ InitProgram
  /\ keyArgs = NoKeyArgs
  /\ keyOut = ""
  /\ served = <<>>

NextCache ==
  \/ Tick(MaxCacheClock)
  \/ \E a \in SetArgs, elapsed \in 0..1 : Set(a[1], a[2], a[3], elapsed)
  \/ \E key \in Keys : Get(key)
  \/ \E key \in Keys : Has(key)
  \/ \E key \in Keys : Delete(key)
  \/ Clear
  \/ Cleanup

SpecCache == Init /\ [][NextCache]_vars

\* the cache with more reads and fewer writes: the hit and miss accounting
MaxStatGets == 3       \* cap on the counted get calls of SpecStats
StatsKeys == {"k1", "k2"}
StatsArgs == {a \in SetArgs : a[1] \in StatsKeys}

NextStats ==
  \/ Tick(MaxCacheClock)
  \/ \E a \in StatsArgs : Set(a[1], a[2], a[3], 0)
  \/ \E key \in StatsKeys : GetWithin(key, MaxStatGets)
  \/ \E key \in StatsKeys : Has(key)
  \/ \E key \in StatsKeys : Delete(key)
  \/ Clear
  \/ Cleanup

SpecStats == Init /\ [][NextStats]_vars

NextRL ==
  \/ Tick(MaxClock)
  \/ \E key \in RLKeys : \E limit \in LimitsOf(key), windowMs \in WindowsOf(key) :
       RateLimit(key, limit, windowMs)

SpecRL == Init /\ [][NextRL]_vars

\* the same calls with and without sweeps: a long-lived k1, which is also deleted, a k2
\* that expires at once, a k3 with the default ttl
TwinArgs == {<<"k1", "v1", MaxCacheClock>>, <<"k2", "v1", 0>>, <<"k3", "v2", Undefined>>}

NextSweep ==
  \/ TwinTick
  \/ \E a \in TwinArgs : TwinSet(a[1], a[2], a[3])
  \/ \E key \in Keys : TwinGet(key)
  \/ \E key \in Keys : TwinHas(key)
  \/ TwinDelete("k1")
  \/ TwinSweep

SpecSweep == Init /\ [][NextSweep]_vars

\* one bucket, called with every limit and window
NextBucket ==
  \/ Tick(MaxClock)
  \/ \E limit \in Limits, windowMs \in Windows : RateLimit("a", limit, windowMs)

SpecBucket == Init /\ [][NextBucket]_vars

\* one bucket called with every limit and window, with the first denial since the last
\* admission kept: when it was made and the resetMs it returned
ResetCall(limit, windowMs) ==
  /\ RateLimitCall("a", limit, windowMs)
  /\ lastDenied' =
       IF rlRet'.allowed THEN [lastDenied EXCEPT !.denied = FALSE]
       ELSE IF lastDenied.denied THEN lastDenied
       ELSE [denied |-> TRUE, at |-> clock, resetMs |-> rlRet'.resetMs]

NextReset ==
  \/ Tick(MaxClock)
  \/ \E limit \in Limits, windowMs \in Windows : ResetCall(limit, windowMs)

SpecReset == Init /\ [][NextReset]_vars

\* one bucket called with positive and non-positive limits and windows.  A window of
\* no width admits every call of a positive limit, so the admissions of a behaviour
\* are capped.
MaxMisuseCalls == 3    \* admitted calls in a behaviour of SpecMisuse
MisuseLimits == -1..1
MisuseWindows == -1..1

MisuseCall(limit, windowMs) ==
  /\ Len(admitted["a"]) < MaxMisuseCalls
  /\ RateLimit("a", limit, windowMs)

NextMisuse ==
  \/ Tick(MaxClock)
  \/ \E limit \in MisuseLimits, windowMs \in MisuseWindows : MisuseCall(limit, windowMs)

SpecMisuse == Init /\ [][NextMisuse]_vars

\* the key generators on arguments drawn at the start
InitKeys ==
  /\ InitProgram
  /\ keyArgs \in QueryCalls \cup KeyCalls
  /\ keyOut = ""
  /\ served = <<>>

NextKeys == GenerateQueryCacheKey \/ GenerateCacheKey

SpecKeys == InitKeys /\ [][NextKeys]_vars

\* the chat endpoint alone
NextChat ==
  \/ Tick(MaxApiClock)
  \/ CleanupTimer
  \/ \E r \in Reqs, ip \in IPs, body \in Bodies : ChatStart(r, ip, body)
  \/ \E r \in Reqs : ChatLookup(r)
  \/ \E r \in Reqs, outcome \in Outcomes, answer \in Answers, elapsed \in 0..1 :
       ChatFetch(r, outcome, answer, elapsed)

SpecChat == Init /\ [][NextChat]_vars

\* the chat endpoint asked the same and other questions by two clients taking turns,
\* one request after the other, with a longer ttl, a backend that answers, and the
\* time of every 200 response kept
RepeatTtl == 2         \* ttl of the cached chat responses (300000), scaled to ticks
MaxRepeatClock == 3    \* the clock of this specification runs 0..MaxRepeatClock
MaxRepeatReqs == 4     \* requests handled in one behaviour
NoTime == -1           \* in served: no 200 response yet

RepeatReqs == 1..MaxRepeatReqs

\* "abc", "abd" and "Aaa", all valid
RepeatBodies ==
  {ChatBody(q, Undefined, Undefined, Undefined, Undefined) :
     q \in {<<97, 98, 99>>, <<97, 98, 100>>, <<65, 97, 97>>}}

InitRepeat ==
  /\ InitModules
  /\ reqs = [r \in RepeatReqs |-> IdleReq]
  /\ keyArgs = NoKeyArgs
  /\ keyOut = ""
  /\ served = [r \in RepeatReqs |-> NoTime]

\* the step of request r returned a 200 response at its Date.now()
ServedAfter(r) ==
  IF reqs[r].pc # "done" /\ reqs'[r].pc = "done" /\ reqs'[r].status = 200
  THEN [served EXCEPT ![r] = clock']
  ELSE served

RepeatIP(r) == IF r % 2 = 1 THEN "ip1" ELSE "ip2"

\* a request sent once the one before it has been answered
RepeatStart(r, body) ==
  /\ r > 1 => reqs[r - 1].pc = "done"
  /\ ChatStart(r, RepeatIP(r), body)

RepeatLookup(r) == ChatLookupStep(r) /\ served' = ServedAfter(r)

RepeatFetch(r) ==
  /\ ChatFetchWith(r, "ok", "ans1", 0, RepeatTtl, MaxRepeatClock)
  /\ served' = ServedAfter(r)

\* time passes between requests and while the backend works; the body of a request
\* arrives within the tick of its admission
RepeatTick ==
  /\ \A r \in RepeatReqs : reqs[r].pc # "body"
  /\ Tick(MaxRepeatClock)

NextRepeat ==
  \/ RepeatTick
  \/ \E r \in RepeatReqs, body \in RepeatBodies : RepeatStart(r, body)
  \/ \E r \in RepeatReqs : RepeatLookup(r)
  \/ \E r \in RepeatReqs : RepeatFetch(r)

SpecRepeat == InitRepeat /\ [][NextRepeat]_vars

\* the upload endpoint alone, on every form
NextUpload ==
  \/ Tick(MaxApiClock)
  \/ \E r \in Reqs, ip \in IPs, form \in UploadInputs : UploadStart(r, ip, form)
  \/ \E r \in Reqs : UploadForm(r)
  \/ \E r \in Reqs, written \in BOOLEAN : UploadSave(r, written)
  \/ \E r \in Reqs, outcome \in Outcomes : UploadIngest(r, outcome)

SpecUpload == Init /\ [][NextUpload]_vars

\* the chat endpoint with a backend whose answer names the payload it was sent, asked
\* "Aaa" and "BBa" (equal hashes) and "Aaa" with parameters given, omitted or changed
PayloadBodies ==
  { ChatBody(<<65, 97, 97>>, Undefined, Undefined, Undefined, Undefined),
    ChatBody(<<66, 66, 97>>, Undefined, Undefined, Undefined, Undefined),
    ChatBody(<<65, 97, 97>>, 5, Undefined, Undefined, Undefined),
    ChatBody(<<65, 97, 97>>, 6, Undefined, Undefined, Undefined),
    ChatBody(<<65, 97, 97>>, Undefined, 0, Undefined, 3),
    ChatBody(<<65, 97, 97>>, Undefined, 1, Undefined, Undefined) }

\* the text of a question made of the letters used here
RECURSIVE QuestionText(_)
QuestionText(q) ==
  IF q = <<>> THEN ""
  ELSE (CASE q[1] = 65 -> "A" [] q[1] = 66 -> "B" [] q[1] = 97 -> "a" [] q[1] = 98 -> "b"
          [] q[1] = 99 -> "c" [] OTHER -> "d") \o QuestionText(Tail(q))

\* one member of the JSON body; JSON.stringify leaves out a member that is undefined
PayloadMember(name, v, text) == IF v = Undefined THEN "" ELSE "," \o name \o ":" \o text

\* the body of the POST to /chat: JSON.stringify({question, top_k, enable_llm_rerank,
\* enable_rerank, sentence_window_size})
Payload(b) ==
  "{question:" \o QuestionText(b.question)
    \o PayloadMember("top_k", b.topK, ToString(b.topK))
    \o PayloadMember("enable_llm_rerank", b.enableLLMRerank,
                     IF b.enableLLMRerank = 1 THEN "true" ELSE "false")
    \o PayloadMember("enable_rerank", b.enableRerank,
                     IF b.enableRerank = 1 THEN "true" ELSE "false")
    \o PayloadMember("sentence_window_size", b.sentenceWindowSize, ToString(b.sentenceWindowSize))
    \o "}"

\* the backend answers, or fails, and its answer is a function of the payload
PayloadFetch(r, outcome) == ChatFetch(r, outcome, Payload(reqs[r].body), 0)

NextPayload ==
  \/ Tick(MaxApiClock)
  \/ \E r \in Reqs, ip \in IPs, body \in PayloadBodies : ChatStart(r, ip, body)
  \/ \E r \in Reqs : ChatLookup(r)
  \/ \E r \in Reqs, outcome \in {"ok", "notOk"} : PayloadFetch(r, outcome)

SpecPayload == Init /\ [][NextPayload]_vars

\* one retryWithBackoff call; every attempt ends and every timer fires
NextRetry ==
  \/ \E maxRetries \in RetryCounts, baseDelay \in BaseDelays, maxDelay \in MaxDelays :
       RetryStart(maxRetries, baseDelay, maxDelay)
  \/ \E error \in OperationErrors : RetryFails(error)
  \/ \E value \in Values : RetrySucceeds(value)
  \/ RetryWake

SpecRetry ==
  /\ Init /\ [][NextRetry]_vars
  /\ WF_vars((\E error \in OperationErrors : RetryFails(error))
               \/ (\E value \in Values : RetrySucceeds(value)))
  /\ WF_vars(RetryWake)

\* the three rate-limited endpoints side by side, on fewer inputs: one valid and one
\* invalid body, one answer, an empty form and a form of one good file
ApiBodies == {b \in Bodies : b.question \in {<<97, 98, 99>>, <<97, 98>>}}
ApiForms == {f \in UploadForms : f = <<>> \/ (Len(f) = 1 /\ f[1].name = "a.pdf")}

NextApi ==
  \/ Tick(MaxApiClock)
  \/ CleanupTimer
  \/ \E r \in Reqs, ip \in IPs, body \in ApiBodies : ChatStart(r, ip, body)
  \/ \E r \in Reqs : ChatLookup(r)
  \/ \E r \in Reqs, outcome \in Outcomes, elapsed \in 0..1 :
       ChatFetch(r, outcome, "ans1", elapsed)
  \/ \E r \in Reqs, ip \in IPs, body \in ApiBodies : StreamStart(r, ip, body)
  \/ \E r \in Reqs : StreamParse(r)
  \/ \E r \in Reqs, outcome \in Outcomes : StreamFetch(r, outcome)
  \/ \E r \in Reqs : StreamAbort(r)
  \/ \E r \in Reqs : StreamEnd(r)
  \/ \E r \in Reqs, ip \in IPs, form \in ApiForms : UploadStart(r, ip, form)
  \/ \E r \in Reqs : UploadForm(r)
  \/ \E r \in Reqs, written \in BOOLEAN : UploadSave(r, written)
  \/ \E r \in Reqs, outcome \in Outcomes : UploadIngest(r, outcome)

SpecApi == Init /\ [][NextApi]_vars

(***************************************************************************)
(* MemoryCache: capacity, expiry, eviction (under SpecCache)               *)
(***************************************************************************)

\* C1: the number of stored entries never exceeds maxSize, also when several
\* set calls fall into the same millisecond.
C1_CapacityInvariant == Len(cache) <= maxSize

\* C2 as stated: a get of an entry that set stored and nobody has since overwritten,
\* deleted or evicted returns the stored value exactly while now - createdAt < ttl,
\* and absent from now - createdAt >= ttl on.
C2_TtlExclusive ==
  [][\A key \in Keys : Get(key) =>
       \A x \in stored : x.key = key =>
         /\ cacheRet'.found <=> (clock - x.timestamp < x.ttl)
         /\ cacheRet'.found => cacheRet'.data = x.data]_vars

\* C2 amended: a get of such an entry returns the stored value exactly while
\* now - createdAt <= ttl and absent once now - createdAt > ttl, whether or not
\* the sweep has run.
C2_TtlInclusive ==
  [][\A key \in Keys : (cacheRet'.op = "get" /\ Get(key)) =>
       \A x \in stored : x.key = key =>
         /\ cacheRet'.found <=> (clock - x.timestamp <= x.ttl)
         /\ cacheRet'.found => cacheRet'.data = x.data]_vars

\* a get at age = ttl exactly has just returned the stored value
C2_Witness ==
  /\ cacheRet.op = "get"
  /\ cacheRet.found
  /\ \E x \in stored :
       x.key = cacheRet.key /\ x.data = cacheRet.data /\ x.ttl > 0 /\ clock - x.timestamp = x.ttl

\* C3: get and has report a physically stored entry present if and only if
\* now - createdAt <= ttl; past that age both report it absent although it is
\* still in the Map when they are called.
C3_ReadableIffWithinTtl ==
  [][\A key \in Keys :
       (cacheRet'.op \in {"get", "has"} /\ cacheRet'.key = key /\ MapHas(cache, key)
          /\ (Get(key) \/ Has(key))) =>
       (cacheRet'.found <=>
          (clock - cache[MapIndex(cache, key)].timestamp <= cache[MapIndex(cache, key)].ttl))]_vars

\* has has just reported absent an entry that was in the Map
C3_Witness == cacheRet.op = "has" /\ cacheRet.had /\ ~cacheRet.found

\* C10: a set of a new key into a cache holding maxSize entries (or more) removes
\* exactly one entry, one with the smallest createdAt; any other set removes none.
C10_EvictsExactlyOldest ==
  [][\A key \in Keys, value \in Values, ttl \in TtlArgs, elapsed \in 0..1 :
       Set(key, value, ttl, elapsed) =>
         LET removed == MapKeys(cache) \ MapKeys(cache')
         IN IF Len(cache) >= maxSize /\ ~MapHas(cache, key)
            THEN /\ Cardinality(removed) = 1
                 /\ \A k \in removed : \A j \in 1..Len(cache) :
                      cache[MapIndex(cache, k)].timestamp <= cache[j].timestamp
            ELSE removed = {}]_vars

(***************************************************************************)
(* rateLimit (under SpecRL)                                                *)
(***************************************************************************)
AdmittedIn(key, from, to) ==
  {i \in 1..Len(admitted[key]) : from <= admitted[key][i] /\ admitted[key][i] < to}

\* the admitted timestamps of key before the call just made
AdmittedBefore(key) ==
  IF rlRet.key = key /\ rlRet.allowed
  THEN SubSeq(admitted[key], 1, Len(admitted[key]) - 1)
  ELSE admitted[key]

\* C4: for a key always called with the same limit and windowMs, no time window
\* [s, s + windowMs) holds more than limit admitted timestamps of the key.
C4_SlidingWindowBound ==
  \A key \in DOMAIN buckets : fixedCfg[key] =>
    \A s \in 0..MaxClock :
      Cardinality(AdmittedIn(key, s, s + buckets[key].windowMs)) <= buckets[key].limit

\* limit 2: the quota was used up, a later window admitted again, and a call was
\* just denied
C4_Witness ==
  /\ rlRet.key = "a" /\ fixedCfg["a"] /\ rlRet.limit = 2 /\ ~rlRet.allowed
  /\ Len(admitted["a"]) >= 3

\* C5: with limit and windowMs fixed for the key, a call at time now is admitted if
\* and only if fewer than limit earlier admitted calls have now - t < windowMs; an
\* admitted call appends now and returns remaining = limit - (timestamps retained
\* after the append).  The example, in ticks of one window: limit 3, window 1, four
\* calls at 0 give true, true, true, false, and a call at 2 gives true.
C5_AdmitIffBelowLimit ==
  rlRet.key # NoKey /\ fixedCfg[rlRet.key] =>
    LET key == rlRet.key
        before == AdmittedBefore(key)
        inWindow == {i \in 1..Len(before) : clock - before[i] < rlRet.windowMs}
        ts == buckets[key].timestamps
    IN /\ rlRet.allowed <=> Cardinality(inWindow) < rlRet.limit
       /\ rlRet.allowed =>
            /\ ts # <<>> /\ ts[Len(ts)] = clock
            /\ SubSeq(ts, 1, Len(ts) - 1) = SelectSeq(before, LAMBDA t : clock - t < rlRet.windowMs)
            /\ rlRet.remaining = rlRet.limit - Len(ts)
       /\ (rlRet.limit = 3 /\ rlRet.windowMs = 1) =>
            /\ (before \in {<<>>, <<0>>, <<0, 0>>} /\ clock = 0) => rlRet.allowed
            /\ (before = <<0, 0, 0>> /\ clock = 0) => ~rlRet.allowed
            /\ (before = <<0, 0, 0>> /\ clock = 2) => rlRet.allowed

\* the example has run: three admissions at 0 and, after the window, one at 2
C5_Witness ==
  /\ rlRet.key = "a" /\ fixedCfg["a"] /\ rlRet.limit = 3 /\ rlRet.windowMs = 1
  /\ rlRet.allowed /\ rlRet.remaining = 2
  /\ admitted["a"] = <<0, 0, 0, 2>>

\* C6: after every rateLimit call the bucket holds at most limit timestamps, each
\* with now - t < windowMs, for the limit and windowMs of that call.
C6_BucketWithinLimit ==
  rlRet.key # NoKey =>
    LET ts == buckets[rlRet.key].timestamps
    IN /\ Len(ts) <= rlRet.limit
       /\ \A i \in 1..Len(ts) : clock - ts[i] < rlRet.windowMs

(***************************************************************************)
(* The route handlers                                                      *)
(***************************************************************************)
\* the key the chat handler derives for a body
KeyOf(b) ==
  generateQueryCacheKey(b.question, IF b.topK \in {Undefined, 0} THEN 5 ELSE b.topK,
                        b.enableRerank, b.enableLLMRerank, b.sentenceWindowSize)

\* the cache holds an entry under key that a lookup now would return
Unexpired(key) ==
  MapHas(cache, key) /\ clock - MapGet(cache, key)[1].timestamp <= MapGet(cache, key)[1].ttl

\* request r of the chat endpoint takes a step
ChatStep(r) == reqs'[r] # reqs[r] /\ reqs'[r].endpoint = "chat"

\* the step ends request r in an error response
EndsInError(r) == reqs[r].pc # "done" /\ reqs'[r].pc = "done" /\ reqs'[r].status # 200

\* every entry of the new Map is an entry of the old one: nothing added or overwritten
NothingStored == \A i \in 1..Len(cache') : \E j \in 1..Len(cache) : cache[j] = cache'[i]

\* C7 as stated: a chat request that ends in an error response (rate limit, invalid
\* body, backend failure, thrown exception) has left the cache contents unchanged:
\* none of its steps stored, overwrote or removed an entry.
C7_ErrorPathLeavesCacheUnchanged ==
  \A r \in Reqs :
    (reqs[r].endpoint = "chat" /\ reqs[r].pc = "done" /\ reqs[r].status # 200)
      => (reqs[r].sets = 0 /\ reqs[r].removed = 0)

\* C7 amended: the chat handler stores into the response cache only in the step that
\* answers 200 after the backend answered ok; the step that produces an error response
\* leaves the Map as it is; a request that ends in an error response has stored
\* nothing, and the one change its steps can have made is the lookup's removal of the
\* already expired entry under its own key.
C7_OnlyOkAnswersStored ==
  [][\A r \in Reqs :
       ChatStep(r) =>
         /\ ~NothingStored =>
               (reqs[r].pc \in {"body", "fetch"} /\ reqs'[r].pc = "done" /\ reqs'[r].status = 200
                  /\ (reqs[r].pc = "fetch" => reqs'[r].sets = 1 /\ reqs'[r].data \in Answers))
         /\ EndsInError(r) => (cache' = cache /\ reqs'[r].sets = 0 /\ reqs'[r].removed <= 1)
         /\ reqs'[r].removed > reqs[r].removed =>
               /\ MapHas(cache, reqs'[r].key) /\ ~Unexpired(reqs'[r].key)
               /\ cache' = MapDelete(cache, reqs'[r].key)
         /\ (cache' # cache /\ NothingStored) => reqs'[r].removed = 1]_vars

\* a chat request answered 502 whose lookup had removed the expired entry under its key
C7_Witness ==
  \E r \in Reqs :
    /\ reqs[r].endpoint = "chat" /\ reqs[r].pc = "done" /\ reqs[r].status = 502
    /\ reqs[r].removed = 1 /\ reqs[r].sets = 0

\* C8: for an admitted, valid chat request, when the cache holds an unexpired entry
\* under the derived key the handler returns that entry's data with no backend call;
\* otherwise it makes exactly one backend call and, when the call succeeds, the result
\* is in the cache under the same key with the response TTL and is the data returned.
C8_HitOrOneBackendCall ==
  [][\A r \in Reqs :
       /\ (ChatLookup(r) /\ bodySchema(reqs[r].body)) =>
             LET key == KeyOf(reqs[r].body)
             IN IF Unexpired(key)
                THEN /\ reqs'[r].pc = "done" /\ reqs'[r].status = 200
                     /\ reqs'[r].data = MapGet(cache, key)[1].data
                     /\ reqs'[r].calls = 0
                ELSE /\ reqs'[r].pc = "fetch" /\ reqs'[r].calls = 1 /\ reqs'[r].key = key
       /\ \A outcome \in Outcomes, answer \in Answers, elapsed \in 0..1 :
             ChatFetch(r, outcome, answer, elapsed) =>
               /\ reqs'[r].pc = "done" /\ reqs'[r].calls = 1
               /\ reqs[r].key = KeyOf(reqs[r].body)
               /\ outcome = "ok" =>
                     /\ reqs'[r].status = 200 /\ reqs'[r].data = answer
                     /\ MapHas(cache', reqs[r].key)
                     /\ MapGet(cache', reqs[r].key) =
                          <<CacheEntry(reqs[r].key, answer, clock, ResponseTtl)>>
       /\ (reqs[r].endpoint = "chat" /\ reqs[r].pc = "done") => reqs'[r] = reqs[r]]_vars

\* one request stored the backend's answer and a later one was served it from the cache
C8_Witness ==
  \E r1, r2 \in Reqs :
    /\ reqs[r1].endpoint = "chat" /\ reqs[r1].sets = 1 /\ reqs[r1].calls = 1
    /\ reqs[r2].endpoint = "chat" /\ reqs[r2].hit /\ reqs[r2].calls = 0
    /\ reqs[r2].pc = "done" /\ reqs[r2].data = reqs[r1].data /\ reqs[r2].key = reqs[r1].key

\* the response to a request the limiter denied: 429, no cache access, no backend call
Denied(req) ==
  /\ req.pc = "done" /\ req.status = 429
  /\ req.gets = 0 /\ req.sets = 0 /\ req.removed = 0 /\ req.calls = 0 /\ req.saved = <<>>

\* C9: on each of the three endpoints a request for which rateLimit returns allowed =
\* false is answered 429 in the same step, whatever the cache holds; the step leaves the
\* cache and its counters alone, and the request makes no cache access and no backend
\* call, then or later.
C9_DeniedIs429 ==
  [][\A r \in Reqs, ip \in IPs :
       /\ \A body \in Bodies :
            (ChatStart(r, ip, body)
               /\ ~rateLimit(buckets, "chat:" \o ip, ChatLimit, WindowMs, clock).allowed)
              => (Denied(reqs'[r]) /\ cache' = cache /\ stats' = stats)
       /\ \A body \in Bodies :
            (StreamStart(r, ip, body)
               /\ ~rateLimit(buckets, "chat_stream:" \o ip, StreamLimit, WindowMs, clock).allowed)
              => (Denied(reqs'[r]) /\ cache' = cache /\ stats' = stats)
       /\ \A form \in UploadForms :
            (UploadStart(r, ip, form)
               /\ ~rateLimit(buckets, "upload:" \o ip, UploadLimit, WindowMs, clock).allowed)
              => (Denied(reqs'[r]) /\ cache' = cache /\ stats' = stats)
       /\ (reqs[r].pc # "idle" /\ ~reqs[r].allowed) => (Denied(reqs[r]) /\ reqs'[r] = reqs[r])]_vars

\* a chat request denied while the cache holds an unexpired result for its question
C9_Witness ==
  \E r \in Reqs :
    /\ reqs[r].endpoint = "chat" /\ ~reqs[r].allowed /\ reqs[r].status = 429
    /\ Unexpired(KeyOf(reqs[r].body))
    /\ MapGet(cache, KeyOf(reqs[r].body))[1].hits = 0

(***************************************************************************)
(* MemoryCache: accounting and the effect of each operation                *)
(***************************************************************************)
\* the entry stored under key, when there is one
EntryOf(m, key) == m[MapIndex(m, key)]

\* every entry of m1 under another key than key is in m2 as it was, and nothing else is
OthersUntouched(m1, m2, key) ==
  SelectSeq(m1, LAMBDA e : e.key # key) = SelectSeq(m2, LAMBDA e : e.key # key)

\* the entry under key is past its ttl at the current time
Expired(m, key) == clock - EntryOf(m, key).timestamp > EntryOf(m, key).ttl

\* C11: hits + misses equals the number of get calls made since the last clear (or
\* since construction): a get adds one to exactly one of the two counters, and set,
\* has, delete and the sweep change neither.
C11_HitsPlusMissesCountGets ==
  [][/\ stats.hits + stats.misses = getCalls
     /\ stats'.hits + stats'.misses = getCalls'
     /\ cacheRet'.op = "get" =>
          \/ (stats'.hits = stats.hits + 1 /\ stats'.misses = stats.misses)
          \/ (stats'.hits = stats.hits /\ stats'.misses = stats.misses + 1)
     /\ cacheRet'.op \in {"set", "has", "delete", "cleanup"} => stats' = stats]_vars

\* three gets counted, hits and misses among them, and a has after them
C11_Witness ==
  /\ getCalls = MaxStatGets /\ stats.hits >= 1 /\ stats.misses >= 1
  /\ cacheRet.op = "has"

\* C12: get on a stored entry within its ttl returns the value, adds one to the entry's
\* hit count and to the global hits and leaves value, creation time and ttl; on a stored
\* entry past its ttl it removes the entry, adds one to misses only and returns absent;
\* on a missing key it adds one to misses only and returns absent.  A get right after
\* the set gives the value with hit count 1; a get ttl + 1 later gives absent.
C12_GetEffect ==
  [][\A key \in StatsKeys : GetWithin(key, MaxStatGets) =>
       IF ~MapHas(cache, key)
       THEN /\ ~cacheRet'.found /\ cacheRet'.data = Null
            /\ cache' = cache
            /\ stats' = [hits |-> stats.hits, misses |-> stats.misses + 1]
       ELSE IF Expired(cache, key)
       THEN /\ ~cacheRet'.found /\ cacheRet'.data = Null
            /\ ~MapHas(cache', key) /\ OthersUntouched(cache, cache', key)
            /\ stats' = [hits |-> stats.hits, misses |-> stats.misses + 1]
       ELSE /\ cacheRet'.found /\ cacheRet'.data = EntryOf(cache, key).data
            /\ MapHas(cache', key) /\ OthersUntouched(cache, cache', key)
            /\ EntryOf(cache', key) =
                 [EntryOf(cache, key) EXCEPT !.hits = EntryOf(cache, key).hits + 1]
            /\ stats' = [hits |-> stats.hits + 1, misses |-> stats.misses]
            /\ (EntryOf(cache, key).timestamp = clock /\ EntryOf(cache, key).hits = 0)
                 => EntryOf(cache', key).hits = 1]_vars

\* the scenario: one get hit, and a get at age ttl + 1 has just found the entry expired
C12_Witness ==
  /\ cacheRet.op = "get" /\ cacheRet.had /\ ~cacheRet.found
  /\ stats = [hits |-> 1, misses |-> 1]
  /\ \E x \in stored : x.key = cacheRet.key /\ x.ttl > 0 /\ clock = x.timestamp + x.ttl + 1

\* C13: set on a key already stored is a fresh insertion: the entry has the new value,
\* the ttl given (defaultTtl when none), creation time now and hit count 0; every other
\* entry and the counters are as before; a later get that finds the entry returns the
\* value of the last set.
C13_OverwriteIsFresh ==
  [][/\ \A a \in StatsArgs :
          (/\ cacheRet'.op = "set" /\ cacheRet'.key = a[1] /\ MapHas(cache, a[1])
           /\ Set(a[1], a[2], a[3], 0)) =>
            /\ MapHas(cache', a[1]) /\ Len(cache') = Len(cache)
            /\ EntryOf(cache', a[1]).data = a[2]
            /\ EntryOf(cache', a[1]).ttl = (IF a[3] = Undefined THEN defaultTtl ELSE a[3])
            /\ EntryOf(cache', a[1]).timestamp = clock
            /\ EntryOf(cache', a[1]).hits = 0
            /\ OthersUntouched(cache, cache', a[1])
            /\ stats' = stats
     /\ \A key \in StatsKeys :
          (cacheRet'.op = "get" /\ cacheRet'.found /\ GetWithin(key, MaxStatGets)) =>
            \E x \in stored : x.key = key /\ x.data = cacheRet'.data
                               /\ \A y \in stored : y.key = key => y = x]_vars

\* k1 was read once and then set again at a later time: the entry is new
C13_Witness ==
  /\ cacheRet.op = "set" /\ cacheRet.had /\ cacheRet.key = "k1" /\ cacheRet.data = "v2"
  /\ stats = [hits |-> 1, misses |-> 0] /\ Len(cache) = 1 /\ clock > 0
  /\ EntryOf(cache, "k1") = CacheEntry("k1", "v2", clock, defaultTtl)

\* C14: has returns true exactly when get at the same instant would return a value;
\* it changes no counter and no hit count; the only change it can make is to remove
\* the queried entry when that entry is expired.
C14_HasAgreesWithGet ==
  [][\A key \in StatsKeys : (cacheRet'.op = "has" /\ Has(key)) =>
       /\ cacheRet'.found <=> cacheGet(cache, stats, key, clock).found
       /\ stats' = stats
       /\ \/ cache' = cache
          \/ /\ MapHas(cache, key) /\ Expired(cache, key)
             /\ ~MapHas(cache', key) /\ OthersUntouched(cache, cache', key)
             /\ Len(cache') = Len(cache) - 1]_vars

\* has has just answered true for an entry at age = ttl exactly, which get still returns
C14_Witness ==
  /\ cacheRet.op = "has" /\ cacheRet.found
  /\ EntryOf(cache, cacheRet.key).ttl > 0
  /\ clock - EntryOf(cache, cacheRet.key).timestamp = EntryOf(cache, cacheRet.key).ttl

\* C15: delete removes the named entry whether or not it is expired and leaves every
\* other entry and the counters; clear removes every entry and sets both counters to 0.
C15_DeleteAndClear ==
  [][/\ \A key \in StatsKeys : (cacheRet'.op = "delete" /\ Delete(key)) =>
          /\ ~MapHas(cache', key) /\ OthersUntouched(cache, cache', key)
          /\ Len(cache') = Len(cache) - (IF MapHas(cache, key) THEN 1 ELSE 0)
          /\ stats' = stats
     /\ (cacheRet'.op = "clear" /\ Clear) => (cache' = <<>> /\ stats' = [hits |-> 0, misses |-> 0])]_vars

\* at time 0, when no entry can be expired, an entry has just been deleted while
\* another entry stays and the one get made stays counted
C15_Witness ==
  /\ cacheRet.op = "delete" /\ cacheRet.had /\ ~MapHas(cache, cacheRet.key)
  /\ Len(cache) = 1 /\ stats.hits + stats.misses = 1
  /\ clock = 0

(***************************************************************************)
(* rateLimit: the denied call and reconfiguration (under SpecBucket)       *)
(***************************************************************************)
\* the timestamps of the bucket of key before the call (none when there is no bucket)
TimestampsOf(key) == IF key \in DOMAIN buckets THEN buckets[key].timestamps ELSE <<>>

\* those of them still inside a window of windowMs at the current time
Retained(key, windowMs) == SelectSeq(TimestampsOf(key), LAMBDA t : clock - t < windowMs)

\* C16: a denied call returns allowed = false, remaining = 0 and resetMs = windowMs -
\* (now - oldest), the time until the oldest retained timestamp leaves the window, and
\* records nothing: the bucket then holds exactly the timestamps that survived the
\* pruning.  With a limit of at least 1 a denied call always has a retained timestamp.
C16_DeniedCall ==
  [][LET key == rlRet'.key
         limit == rlRet'.limit
         windowMs == rlRet'.windowMs
     IN (key \in RLKeys /\ ~rlRet'.allowed /\ RateLimit(key, limit, windowMs)) =>
         LET kept == Retained(key, windowMs)
         IN /\ rlRet'.remaining = 0
            /\ buckets'[key].timestamps = kept
            /\ admitted' = admitted
            /\ limit >= 1 => kept # <<>>
            /\ kept # <<>> =>
                 /\ \A i \in 1..Len(kept) : kept[1] <= kept[i]
                 /\ rlRet'.resetMs = windowMs - (clock - kept[1])
                 /\ rlRet'.resetMs > 0 /\ rlRet'.resetMs <= windowMs]_vars

\* a call was just denied one tick after the oldest retained admission: resetMs is one
\* tick short of the window
C16_Witness ==
  /\ rlRet.key = "a" /\ ~rlRet.allowed /\ rlRet.limit >= 1
  /\ rlRet.windowMs = MaxWindow /\ rlRet.resetMs = MaxWindow - 1
  /\ buckets["a"].timestamps[1] = clock - 1

\* C17: a call with a limit or windowMs other than the bucket's applies the new values
\* to itself: the pruning uses the windowMs of the call, the decision its limit and the
\* timestamps retained, and the bucket takes both values over.
C17_ReconfigureAppliesAtOnce ==
  [][LET key == rlRet'.key
         limit == rlRet'.limit
         windowMs == rlRet'.windowMs
     IN (/\ key \in RLKeys /\ key \in DOMAIN buckets
         /\ (buckets[key].limit # limit \/ buckets[key].windowMs # windowMs)
         /\ RateLimit(key, limit, windowMs)) =>
         LET kept == Retained(key, windowMs)
         IN /\ rlRet'.allowed <=> Len(kept) < limit
            /\ buckets'[key].timestamps = IF Len(kept) < limit THEN Append(kept, clock) ELSE kept
            /\ buckets'[key].limit = limit /\ buckets'[key].windowMs = windowMs
            /\ rlRet'.allowed => rlRet'.remaining = limit - (Len(kept) + 1)]_vars

\* two admissions under a higher limit, then a call with limit 1 in the same window:
\* denied, although the limit the two were admitted under would have let it in
C17_Witness ==
  /\ rlRet.key = "a" /\ ~fixedCfg["a"] /\ rlRet.limit = 1 /\ ~rlRet.allowed
  /\ Len(buckets["a"].timestamps) = 2 /\ Len(admitted["a"]) = 2

(***************************************************************************)
(* The key generators (under SpecKeys)                                     *)
(***************************************************************************)
\* generateQueryCacheKey on the arguments drawn, with some of them replaced
QueryKeyWith(question, topK, enableRerank, enableLLMRerank, sentenceWindowSize) ==
  generateQueryCacheKey(question, topK, enableRerank, enableLLMRerank, sentenceWindowSize)

\* the values the optional arguments stand for
FlagValue(flag) == flag = 1
WindowValue(size) == IF size \in {Undefined, 0} THEN 3 ELSE size

QueryKeyMade == keyArgs.fn = "query" /\ keyOut # ""

\* C18: generateQueryCacheKey puts the defaults in before it composes the key: omitting
\* sentenceWindowSize gives the key of passing 3; a true flag is written "1", a false or
\* omitted flag "0"; the key is query:<hash>:<topK>:<flag>:<flag>:<size>.
C18_DefaultsBeforeComposition ==
  QueryKeyMade =>
    LET a == keyArgs
    IN /\ keyOut = "query:" \o simpleHash(a.question) \o ":" \o ToString(a.topK) \o ":"
                    \o (IF a.enableRerank = 1 THEN "1" ELSE "0") \o ":"
                    \o (IF a.enableLLMRerank = 1 THEN "1" ELSE "0") \o ":"
                    \o (IF a.sentenceWindowSize = Undefined THEN "3"
                        ELSE ToString(WindowValue(a.sentenceWindowSize)))
       /\ a.sentenceWindowSize \in {Undefined, 3} =>
            /\ keyOut = QueryKeyWith(a.question, a.topK, a.enableRerank, a.enableLLMRerank, 3)
            /\ keyOut = QueryKeyWith(a.question, a.topK, a.enableRerank, a.enableLLMRerank,
                                     Undefined)
       /\ a.enableRerank \in {Undefined, 0} =>
            /\ keyOut = QueryKeyWith(a.question, a.topK, 0, a.enableLLMRerank,
                                     a.sentenceWindowSize)
            /\ keyOut = QueryKeyWith(a.question, a.topK, Undefined, a.enableLLMRerank,
                                     a.sentenceWindowSize)
       /\ a.enableLLMRerank \in {Undefined, 0} =>
            /\ keyOut = QueryKeyWith(a.question, a.topK, a.enableRerank, 0,
                                     a.sentenceWindowSize)
            /\ keyOut = QueryKeyWith(a.question, a.topK, a.enableRerank, Undefined,
                                     a.sentenceWindowSize)

\* "abc" with topK 5, enableRerank true and the other two omitted
C18_Witness ==
  /\ keyArgs = [fn |-> "query", question |-> <<97, 98, 99>>, topK |-> 5, enableRerank |-> 1,
                enableLLMRerank |-> Undefined, sentenceWindowSize |-> Undefined]
  /\ keyOut = "query:22ci:5:1:0:3"

\* the key changes when topK, a flag or the window size changes its value
OtherArgumentsChangeKey ==
  LET a == keyArgs
  IN /\ \A topK \in TopKs : topK # a.topK =>
          QueryKeyWith(a.question, topK, a.enableRerank, a.enableLLMRerank,
                       a.sentenceWindowSize) # keyOut
     /\ \A flag \in Flags : FlagValue(flag) # FlagValue(a.enableRerank) =>
          QueryKeyWith(a.question, a.topK, flag, a.enableLLMRerank,
                       a.sentenceWindowSize) # keyOut
     /\ \A flag \in Flags : FlagValue(flag) # FlagValue(a.enableLLMRerank) =>
          QueryKeyWith(a.question, a.topK, a.enableRerank, flag,
                       a.sentenceWindowSize) # keyOut
     /\ \A size \in WindowSizes : WindowValue(size) # WindowValue(a.sentenceWindowSize) =>
          QueryKeyWith(a.question, a.topK, a.enableRerank, a.enableLLMRerank, size) # keyOut

\* C19 as stated: changing any single argument of generateQueryCacheKey (question,
\* topK, enableRerank, enableLLMRerank, sentenceWindowSize) to a different effective
\* value, the others kept, changes the key.
C19_AnyArgumentChangesKey ==
  QueryKeyMade =>
    /\ OtherArgumentsChangeKey
    /\ \A question \in Questions : question # keyArgs.question =>
         QueryKeyWith(question, keyArgs.topK, keyArgs.enableRerank, keyArgs.enableLLMRerank,
                      keyArgs.sentenceWindowSize) # keyOut

\* the absolute value of the 32-bit hash of a question
AbsHash(question) ==
  LET hash == hashLoop(question, 1, 0) IN IF hash < 0 THEN 0 - hash ELSE hash

\* C19 amended: changing topK, enableRerank, enableLLMRerank or sentenceWindowSize to a
\* different effective value changes the key; changing the question changes the key
\* exactly when the absolute values of the two questions' 32-bit hashes differ.
C19_ChangesKeyUpToHash ==
  QueryKeyMade =>
    /\ OtherArgumentsChangeKey
    /\ \A question \in Questions :
         (QueryKeyWith(question, keyArgs.topK, keyArgs.enableRerank, keyArgs.enableLLMRerank,
                       keyArgs.sentenceWindowSize) # keyOut)
           <=> AbsHash(question) # AbsHash(keyArgs.question)

\* the key of "Aaa" is made, and "BBa" has the same one while "abc" has another
C19_Witness ==
  /\ QueryKeyMade /\ keyArgs.question = <<65, 97, 97>>
  /\ QueryKeyWith(<<66, 66, 97>>, keyArgs.topK, keyArgs.enableRerank, keyArgs.enableLLMRerank,
                  keyArgs.sentenceWindowSize) = keyOut
  /\ QueryKeyWith(<<97, 98, 99>>, keyArgs.topK, keyArgs.enableRerank, keyArgs.enableLLMRerank,
                  keyArgs.sentenceWindowSize) # keyOut

CacheKeyMade == keyArgs.fn = "key" /\ keyOut # ""

\* C20 as stated: equal prefix and equal ordered parts give the same key, and two
\* argument lists that differ in a part or in the number of parts give different keys,
\* also when a part contains the delimiter.
C20_DifferentPartsDifferentKeys ==
  CacheKeyMade =>
    \A parts \in PartLists :
      (generateCacheKey(keyArgs.prefix, partStrings(parts)) = keyOut) <=> parts = keyArgs.parts

\* no part contains the delimiter
NoDelimiter(parts) ==
  \A i \in 1..Len(parts) : \A j \in 1..Len(parts[i].chars) : parts[i].chars[j] # ":"

\* no parts, or the empty string alone: both join to the empty string
JoinsToNothing(parts) == partStrings(parts) \in {<<>>, <<"">>}

\* C20 amended: equal prefix and parts with equal string forms give the same key; two
\* lists whose parts contain no delimiter, and that differ in the string form of a
\* part or in the number of parts, give different keys, unless one is the empty list
\* and the other the empty string alone.
C20_DelimiterFreePartsDifferentKeys ==
  CacheKeyMade =>
    \A parts \in PartLists :
      /\ partStrings(parts) = partStrings(keyArgs.parts) =>
           generateCacheKey(keyArgs.prefix, partStrings(parts)) = keyOut
      /\ (/\ NoDelimiter(parts) /\ NoDelimiter(keyArgs.parts)
          /\ partStrings(parts) # partStrings(keyArgs.parts)
          /\ ~(JoinsToNothing(parts) /\ JoinsToNothing(keyArgs.parts))) =>
           generateCacheKey(keyArgs.prefix, partStrings(parts)) # keyOut

\* the key of ("a", "b") is made; ("a:b") has the same one and ("b", "a") another
C20_Witness ==
  /\ CacheKeyMade /\ keyArgs.prefix = "p"
  /\ keyArgs.parts = <<StringPart(<<"a">>), StringPart(<<"b">>)>>
  /\ keyOut = "p:a:b"
  /\ generateCacheKey("p", partStrings(<<StringPart(<<"a", ":", "b">>)>>)) = keyOut
  /\ generateCacheKey("p", partStrings(<<StringPart(<<"b">>), StringPart(<<"a">>)>>)) # keyOut

(***************************************************************************)
(* MemoryCache: the background sweep (under SpecStats)                     *)
(***************************************************************************)
\* C21: one run of the sweep removes exactly the entries that are past their ttl at
\* that moment (age > ttl, the test of get and has): every other entry stays, in its
\* place, with its value, timestamp, ttl and hit count, and the hit and miss counters
\* and the clock are as before.
C21_SweepRemovesExactlyExpired ==
  [][(cacheRet'.op = "cleanup" /\ Cleanup) =>
       /\ \A key \in MapKeys(cache) :
            /\ MapHas(cache', key) <=> ~Expired(cache, key)
            /\ MapHas(cache', key) => EntryOf(cache', key) = EntryOf(cache, key)
       /\ MapKeys(cache') \subseteq MapKeys(cache)
       /\ Len(cache') = Cardinality(MapKeys(cache'))
       /\ \A i, j \in 1..Len(cache') :
            i < j => MapIndex(cache, cache'[i].key) < MapIndex(cache, cache'[j].key)
       /\ stats' = stats /\ getCalls' = getCalls /\ clock' = clock]_vars

\* a sweep has just removed an expired entry and kept one that was read once
C21_Witness ==
  /\ cacheRet.op = "cleanup"
  /\ Len(cache) = 1 /\ cache[1].hits = 1
  /\ \E x \in stored : x.key \notin MapKeys(cache) /\ clock - x.timestamp > x.ttl

(***************************************************************************)
(* get and has with and without the sweep (under SpecSweep)                *)
(***************************************************************************)
\* the get or has call just made gave the same result on both instances
SameResult == twin.ret.found = cacheRet.found /\ twin.ret.data = cacheRet.data

\* C22 as stated: for any sequence of set, get, has and delete calls, running sweeps
\* in between changes the result of no get or has call.
C22_SweepNeverChangesResults == cacheRet.op \in {"get", "has"} => SameResult

\* C22: as long as no set call has found the Map full (no entry was evicted), running
\* sweeps in between changes the result of no get or has call; and with or without
\* sweeps no get or has reports an entry that is past its ttl.
C22_SweepChangesNoResultWithoutEviction ==
  /\ (cacheRet.op \in {"get", "has"} /\ ~twin.evicted) => SameResult
  /\ \A key \in Keys :
       /\ (cacheRet.op \in {"get", "has"} /\ cacheRet.key = key /\ cacheRet.found) =>
             (MapHas(cache, key) /\ ~Expired(cache, key))
       /\ (twin.ret.op \in {"get", "has"} /\ twin.ret.key = key /\ twin.ret.found) =>
             (MapHas(twin.cache, key) /\ ~Expired(twin.cache, key))

\* a get of a key whose expired entry the sweep had removed from the second instance
\* and the first still held: absent on both
C22_Witness ==
  /\ ~twin.evicted
  /\ cacheRet.op = "get" /\ cacheRet.had /\ ~cacheRet.found
  /\ twin.ret.op = "get" /\ ~twin.ret.had /\ ~twin.ret.found

(***************************************************************************)
(* The endpoints and the shared cache and limiter (under SpecApi)          *)
(***************************************************************************)
\* a step of the handler of request r on the given endpoint
StepOf(r, endpoint) == reqs'[r] # reqs[r] /\ reqs'[r].endpoint = endpoint

\* the step leaves every bucket but the one under key as it was
OtherBucketsUntouched(key) ==
  \A k \in BucketKeys \ {key} :
    /\ k \in DOMAIN buckets' <=> k \in DOMAIN buckets
    /\ k \in DOMAIN buckets => buckets'[k] = buckets[k]

\* C23: no step of an /api/upload request, accepted or rejected, reads or writes the
\* cache; its rate-limit call is made on the bucket upload:<ip> with limit 20 and window
\* 60000 ms and touches no other bucket, and the /api/chat handler calls the limiter on
\* chat:<ip> with limit 60 and window 60000 ms, a different bucket and a different quota.
C23_UploadBypassesCache ==
  [][\A r \in Reqs :
       /\ StepOf(r, "upload") =>
            /\ cache' = cache /\ stats' = stats /\ getCalls' = getCalls
            /\ reqs'[r].gets = 0 /\ reqs'[r].sets = 0 /\ reqs'[r].removed = 0
            /\ OtherBucketsUntouched("upload:" \o reqs'[r].ip)
            /\ IF reqs[r].pc = "idle"
               THEN /\ reqs'[r].quota = Quota(20, 60000)
                    /\ buckets'["upload:" \o reqs'[r].ip].limit = UploadLimit
                    /\ buckets'["upload:" \o reqs'[r].ip].windowMs = WindowMs
                    /\ reqs'[r].allowed =
                         (Len(Retained("upload:" \o reqs'[r].ip, WindowMs)) < UploadLimit)
               ELSE buckets' = buckets
       /\ (StepOf(r, "chat") /\ reqs[r].pc = "idle") =>
            /\ reqs'[r].quota = Quota(60, 60000)
            /\ OtherBucketsUntouched("chat:" \o reqs'[r].ip)
            /\ buckets'["chat:" \o reqs'[r].ip].limit = ChatLimit]_vars

\* an upload was accepted and ingested while the cache held a chat answer
C23_Witness ==
  \E r1, r2 \in Reqs :
    /\ reqs[r1].endpoint = "chat" /\ reqs[r1].sets = 1
    /\ reqs[r2].endpoint = "upload" /\ reqs[r2].status = 200 /\ reqs[r2].saved # <<>>
    /\ Len(cache) = 1 /\ cache[1].hits = 0
    /\ {"chat:ip1", "upload:ip1"} \subseteq DOMAIN buckets

\* C24: when the client of a streaming request disconnects while the upstream call is
\* in progress, the call is aborted and the request ends; the cache, its counters and
\* every rate-limit bucket are as before, the timestamp of the request's admission
\* included.
C24_DisconnectLeavesCacheAndLimiter ==
  [][\A r \in Reqs :
       (reqs[r].type # "aborted" /\ reqs'[r].type = "aborted") =>
         /\ reqs[r].endpoint = "stream" /\ reqs[r].allowed /\ reqs[r].calls = 1
         /\ reqs'[r].pc = "done"
         /\ cache' = cache /\ stats' = stats /\ getCalls' = getCalls
         /\ buckets' = buckets /\ admitted' = admitted
         /\ \A q \in Reqs \ {r} : reqs'[q] = reqs[q]]_vars

\* a stream was aborted at the time it was admitted: its timestamp is still in the bucket
C24_Witness ==
  \E r \in Reqs :
    /\ reqs[r].endpoint = "stream" /\ reqs[r].type = "aborted" /\ clock = 0
    /\ buckets["chat_stream:ip1"].timestamps = <<0>>

(***************************************************************************)
(* Repeated questions (under SpecRepeat)                                   *)
(***************************************************************************)
\* request r2 makes its cache lookup, and r1 asked the same before and got a 200
\* response less than the ttl ago
AsksAgain(r1, r2) ==
  /\ r1 # r2
  /\ reqs[r2].pc = "body" /\ reqs'[r2].pc # "body"
  /\ reqs[r1].body = reqs[r2].body
  /\ served[r1] # NoTime /\ clock - served[r1] < RepeatTtl

\* the lookup of request r answered from the cache, with no backend call
ServedFromCache(r) ==
  /\ reqs'[r].pc = "done" /\ reqs'[r].status = 200
  /\ reqs'[r].hit /\ reqs'[r].calls = 0

\* C25 as stated: an admitted chat request with the question and parameters of an
\* earlier request that completed successfully less than the ttl before is answered
\* from the cache with no backend call, whatever was served in between.
C25_IdenticalQueriesHit ==
  [][\A r1, r2 \in RepeatReqs : AsksAgain(r1, r2) => ServedFromCache(r2)]_vars

\* C25: an admitted chat request with the question and parameters of an earlier request
\* whose backend answer was stored less than the ttl before is answered from the cache,
\* with that answer and no backend call, as long as an entry for the query is still in
\* the cache (it was not evicted to make room for other answers).
C25_StoredAnswerServedUntilEvicted ==
  [][\A r1, r2 \in RepeatReqs :
       (AsksAgain(r1, r2) /\ reqs[r1].sets = 1 /\ MapHas(cache, KeyOf(reqs[r2].body)))
         => (ServedFromCache(r2) /\ reqs'[r2].data = reqs[r1].data)]_vars

\* a question answered from the cache after another question was stored in between
C25_Witness ==
  \E r1, r2, r3 \in RepeatReqs :
    /\ r1 < r3 /\ r3 < r2
    /\ reqs[r1].sets = 1 /\ reqs[r3].sets = 1 /\ reqs[r3].body # reqs[r1].body
    /\ reqs[r2].body = reqs[r1].body /\ reqs[r2].hit /\ reqs[r2].calls = 0
    /\ served[r2] - served[r1] < RepeatTtl /\ served[r2] > served[r1]

(***************************************************************************)
(* Quotas and error responses of the endpoints                             *)
(***************************************************************************)
\* the bucket a request is counted in
BucketOf(req) ==
  (CASE req.endpoint = "upload" -> "upload:"
     [] req.endpoint = "chat" -> "chat:"
     [] OTHER -> "chat_stream:") \o req.ip

\* the scaled limit of an endpoint's buckets
LimitOf(endpoint) ==
  CASE endpoint = "upload" -> UploadLimit
    [] endpoint = "chat" -> ChatLimit
    [] OTHER -> StreamLimit

\* C26: per client IP and endpoint, no window of one minute holds more admitted requests
\* than the endpoint's quota (20 for /api/upload, 60 for /api/chat, 60 for
\* /api/chat/stream, each written with window 60000 ms in its rateLimit call), every
\* admitted request is counted in the bucket of its endpoint and IP, and a request the
\* limiter denies is answered with status 429 and goes no further.
C26_QuotaPerEndpoint ==
  /\ \A r \in Reqs : reqs[r].pc # "idle" =>
       /\ reqs[r].quota = IF reqs[r].endpoint = "upload" THEN Quota(20, 60000)
                          ELSE Quota(60, 60000)
       /\ ~reqs[r].allowed =>
            /\ reqs[r].pc = "done" /\ reqs[r].status = 429
            /\ reqs[r].calls = 0 /\ reqs[r].gets = 0 /\ reqs[r].saved = <<>>
       /\ reqs[r].status = 429 => ~reqs[r].allowed
  /\ \A endpoint \in {"upload", "chat", "stream"}, ip \in IPs :
       LET key == BucketOf([endpoint |-> endpoint, ip |-> ip])
       IN /\ Len(admitted[key]) =
               Cardinality({r \in Reqs : reqs[r].endpoint = endpoint /\ reqs[r].ip = ip
                                           /\ reqs[r].allowed})
          /\ \A s \in 0..MaxApiClock :
               Cardinality(AdmittedIn(key, s, s + WindowMs)) <= LimitOf(endpoint)

\* the quota of /api/chat was used up and a further request answered 429, while
\* /api/chat/stream had admitted none
C26_Witness ==
  \E r1, r2 \in Reqs :
    /\ r1 < r2
    /\ reqs[r1].endpoint = "chat" /\ reqs[r1].allowed
    /\ reqs[r2].endpoint = "chat" /\ ~reqs[r2].allowed /\ reqs[r2].status = 429
    /\ Len(admitted["chat:ip1"]) = ChatLimit /\ admitted["chat_stream:ip1"] = <<>>

\* C27: an admitted /api/chat request whose body violates the parameter constraints
\* (question of 3-2000 characters, topK 1-50, sentenceWindowSize 1-10) is answered
\* with an error of type VALIDATION and status 400.
C27_InvalidBodyIsValidation400 ==
  \A r \in Reqs :
    (reqs[r].endpoint = "chat" /\ reqs[r].allowed /\ reqs[r].pc = "done"
       /\ ~bodySchema(reqs[r].body))
      => (reqs[r].status = 400 /\ reqs[r].type = "VALIDATION")

(***************************************************************************)
(* Upload validation (under SpecUpload)                                    *)
(***************************************************************************)
\* the File entries of a form
FilesOf(form) == SelectSeq(form, LAMBDA f : f.isFile)

RECURSIVE SizeOf(_)
SizeOf(files) == IF files = <<>> THEN 0 ELSE files[1].size + SizeOf(Tail(files))

\* the form breaks a documented constraint: no files, too many files, a file over the
\* size limit, a total over the limit, or an extension that is not supported
BreaksConstraints(form) ==
  LET files == FilesOf(form)
  IN \/ files = <<>>
     \/ Len(files) > MaxFiles
     \/ \E i \in 1..Len(files) : files[i].size > MaxFileSize
     \/ SizeOf(files) > MaxTotalSize
     \/ \E i \in 1..Len(files) : files[i].ext \notin AllowedExtensions

\* C28: an admitted /api/upload request with no files, more than MAX_FILES files, a file
\* over the size limit, a running total over the limit or a file with an unsupported
\* extension makes no call to the ingestion backend and, unless saving one of its files
\* failed, is answered with a FILE_UPLOAD error (status 400).
C28_InvalidUploadRejected ==
  \A r \in Reqs :
    (reqs[r].endpoint = "upload" /\ reqs[r].allowed /\ BreaksConstraints(reqs[r].form)) =>
      /\ reqs[r].calls = 0
      /\ (reqs[r].pc = "done" /\ reqs[r].type # "INTERNAL_SERVER") =>
           (reqs[r].status = 400 /\ reqs[r].type = "FILE_UPLOAD")

(***************************************************************************)
(* Response headers                                                        *)
(***************************************************************************)
\* the names of the headers of a request's response
HeaderNames(req) == {h[1] : h \in req.headers}

\* C29: the response of every request to a rate-limited endpoint carries the headers
\* X-RateLimit-Limit, X-RateLimit-Remaining and X-RateLimit-Reset.
C29_RateLimitHeaders ==
  \A r \in Reqs :
    (reqs[r].pc = "done" /\ reqs[r].type # "aborted") =>
      {"X-RateLimit-Limit", "X-RateLimit-Remaining", "X-RateLimit-Reset"}
        \subseteq HeaderNames(reqs[r])

\* C30: a 200 response of /api/chat carries the header X-Cache: HIT if and only if it
\* was served from the cache.
C30_CacheHitHeader ==
  \A r \in Reqs :
    (reqs[r].endpoint = "chat" /\ reqs[r].pc = "done" /\ reqs[r].status = 200) =>
      (reqs[r].hit <=> <<"X-Cache", "HIT">> \in reqs[r].headers)

(***************************************************************************)
(* The limiter under interleaved requests (under SpecChat)                 *)
(***************************************************************************)
\* request r has been admitted and waits at an await
InFlight(r) == reqs[r].pc \in {"body", "fetch"}

\* C31: whatever requests are in flight at their awaits, the rate-limit call of an
\* arriving /api/chat request prunes, checks and appends in one step: it is admitted if
\* and only if fewer than limit timestamps of its key are within the window, with every
\* admission made so far among them, and the bucket then holds those timestamps and its
\* own; so the bucket never holds more than limit timestamps and no window holds more
\* than limit admissions.
C31_AdmissionIsAtomic ==
  /\ [](\A ip \in IPs :
          /\ Len(TimestampsOf("chat:" \o ip)) <= ChatLimit
          /\ \A s \in 0..MaxApiClock :
               Cardinality(AdmittedIn("chat:" \o ip, s, s + WindowMs)) <= ChatLimit)
  /\ [][\A r \in Reqs : (reqs[r].pc = "idle" /\ reqs'[r].endpoint = "chat") =>
          LET key == "chat:" \o reqs'[r].ip
              kept == Retained(key, WindowMs)
              recent == SelectSeq(admitted[key], LAMBDA t : clock - t < WindowMs)
          IN /\ kept = recent
             /\ reqs'[r].allowed <=> Len(kept) < ChatLimit
             /\ buckets'[key].timestamps =
                  IF reqs'[r].allowed THEN Append(kept, clock) ELSE kept
             /\ \A q \in Reqs \ {r} : reqs'[q] = reqs[q]]_vars

\* a request was denied while an earlier one, admitted against the last free slot, was
\* still waiting for its backend call
C31_Witness ==
  \E r1, r2 \in Reqs :
    /\ r1 # r2 /\ reqs[r1].endpoint = "chat" /\ reqs[r2].endpoint = "chat"
    /\ reqs[r1].ip = reqs[r2].ip
    /\ reqs[r1].pc = "fetch" /\ reqs[r1].allowed
    /\ reqs[r2].status = 429 /\ ~reqs[r2].allowed
    /\ Len(TimestampsOf("chat:" \o reqs[r1].ip)) = ChatLimit

(***************************************************************************)
(* Whose answer a cache hit returns (under SpecPayload)                    *)
(***************************************************************************)
\* the parameters as the key takes them: topK 5, flags false and window 3 when omitted
EffectiveParams(b) ==
  << IF b.topK = Undefined THEN 5 ELSE b.topK,
     b.enableRerank = 1, b.enableLLMRerank = 1,
     IF b.sentenceWindowSize = Undefined THEN 3 ELSE b.sentenceWindowSize >>

NoStoreYet(key) == \A q \in Reqs : reqs[q].key = key => reqs[q].sets = 0

\* C33: a valid /api/chat request whose lookup comes while another request with the same
\* key waits for the backend, nothing being stored under the key yet, misses too and
\* makes its own backend call; and every request whose backend call succeeds stores its
\* answer over whatever is under the key, so that after both completed the cache holds
\* the answer of the one whose call completed last.
C33_NoCoalescing ==
  [][\A r \in Reqs :
       /\ (/\ reqs[r].endpoint = "chat" /\ reqs[r].pc = "body" /\ reqs'[r].pc # "body"
           /\ bodySchema(reqs[r].body)
           /\ NoStoreYet(KeyOf(reqs[r].body))
           /\ \E r1 \in Reqs \ {r} :
                reqs[r1].pc = "fetch" /\ reqs[r1].key = KeyOf(reqs[r].body))
            => (reqs'[r].pc = "fetch" /\ reqs'[r].calls = 1 /\ ~reqs'[r].hit)
       /\ (reqs[r].endpoint = "chat" /\ reqs[r].pc = "fetch" /\ reqs'[r].pc = "done"
             /\ reqs'[r].status = 200)
            => /\ reqs'[r].sets = 1
               /\ MapHas(cache', reqs[r].key)
               /\ EntryOf(cache', reqs[r].key).data = reqs'[r].data
               /\ EntryOf(cache', reqs[r].key).timestamp = clock]_vars

\* two requests for one key overlapped (the second was admitted at time 1, when an answer
\* stored by the first would still have been served), both called the backend, and the
\* cache holds the answer of the second, which differs from that of the first
C33_Witness ==
  \E r1, r2 \in Reqs :
    /\ r1 < r2 /\ clock = 1 /\ admitted["chat:ip1"] = <<0, 1>>
    /\ reqs[r1].key = reqs[r2].key /\ reqs[r1].key # ""
    /\ reqs[r1].sets = 1 /\ reqs[r2].sets = 1
    /\ reqs[r1].calls = 1 /\ reqs[r2].calls = 1 /\ ~reqs[r1].hit /\ ~reqs[r2].hit
    /\ reqs[r1].data # reqs[r2].data
    /\ MapHas(cache, reqs[r2].key) /\ EntryOf(cache, reqs[r2].key).data = reqs[r2].data
    /\ EntryOf(cache, reqs[r2].key).timestamp = 1 /\ EntryOf(cache, reqs[r2].key).hits = 0

(***************************************************************************)
(* resetMs as a bound on the lock-out (under SpecReset)                    *)
(***************************************************************************)
\* C34: for a key always called with the same limit >= 1 and windowMs, once a call at
\* time now was denied with resetMs = r and no call has been admitted since, a call at
\* a time >= now + r is admitted.
C34_AdmittedAfterReset ==
  [][\A limit \in Limits, windowMs \in Windows :
       (/\ lastDenied.denied /\ limit >= 1
        /\ clock >= lastDenied.at + lastDenied.resetMs
        /\ ResetCall(limit, windowMs)
        /\ fixedCfg'["a"]) => rlRet'.allowed]_vars

\* a call denied at time 1 with resetMs 1 was followed by a call admitted at time 2
C34_Witness ==
  /\ rlRet.key = "a" /\ rlRet.allowed /\ fixedCfg["a"] /\ rlRet.limit >= 1
  /\ ~lastDenied.denied /\ lastDenied.at = 1 /\ lastDenied.resetMs = 1 /\ clock = 2

(***************************************************************************)
(* Independence of the buckets (under SpecApi)                             *)
(***************************************************************************)
\* C35: no step removes a bucket; a step creates or changes at most one bucket, and
\* only the arrival of a request does, in the bucket of its endpoint and IP, every other
\* bucket staying as it was; whether the request is admitted depends on the timestamps
\* of that bucket alone, so the buckets upload:<ip>, chat:<ip> and chat_stream:<ip> of
\* one IP never use up each other's quota.
C35_BucketsIndependent ==
  [][/\ DOMAIN buckets \subseteq DOMAIN buckets'
     /\ buckets' # buckets =>
          \E r \in Reqs :
            /\ reqs[r].pc = "idle" /\ reqs'[r].pc # "idle"
            /\ OtherBucketsUntouched(BucketOf(reqs'[r]))
     /\ \A r \in Reqs : (reqs[r].pc = "idle" /\ reqs'[r].pc # "idle") =>
          LET key == BucketOf(reqs'[r])
          IN /\ key \in DOMAIN buckets'
             /\ reqs'[r].allowed <=>
                  Len(Retained(key, WindowMs)) < LimitOf(reqs'[r].endpoint)
             /\ \A k \in DOMAIN buckets \ {key} : buckets'[k] = buckets[k]]_vars

\* at time 0 one IP has used up its quota on /api/chat and was admitted on
\* /api/chat/stream all the same
C35_Witness ==
  \E r1, r2 \in Reqs :
    /\ reqs[r1].endpoint = "chat" /\ reqs[r1].allowed
    /\ reqs[r2].endpoint = "stream" /\ reqs[r2].allowed /\ reqs[r2].ip = reqs[r1].ip
    /\ clock = 0
    /\ Len(buckets["chat:ip1"].timestamps) = ChatLimit
    /\ buckets["chat_stream:ip1"].timestamps = <<0>>

(***************************************************************************)
(* Eviction and reads (under SpecCache)                                    *)
(***************************************************************************)
\* the key of the oldest entry of a Map that is not empty: the first, in insertion order,
\* of those with the smallest createdAt
OldestKey(m) ==
  m[CHOOSE i \in 1..Len(m) :
      /\ \A j \in 1..Len(m) : m[i].timestamp <= m[j].timestamp
      /\ \A j \in 1..(i - 1) : m[j].timestamp > m[i].timestamp].key

\* C36: get and has never change the createdAt of an entry, and a set of a new key into
\* a full cache evicts the oldest entry, however often it was read and whatever reads
\* were made of the others.
C36_EvictionIgnoresReads ==
  [][/\ cacheRet'.op \in {"get", "has"} =>
          \A k \in MapKeys(cache') :
            MapHas(cache, k) /\ EntryOf(cache', k).timestamp = EntryOf(cache, k).timestamp
     /\ (cacheRet'.op = "set" /\ ~cacheRet'.had /\ Len(cache) >= maxSize) =>
          ~MapHas(cache', OldestKey(cache))]_vars

(***************************************************************************)
(* Upload storage after a rejection (under SpecUpload)                     *)
(***************************************************************************)
\* C37: an /api/upload request rejected by validation (answered FILE_UPLOAD) has
\* written none of its files to the upload directory.
C37_RejectedUploadWritesNothing ==
  \A r \in Reqs :
    (reqs[r].endpoint = "upload" /\ reqs[r].pc = "done" /\ reqs[r].type = "FILE_UPLOAD") =>
      (reqs[r].saved = <<>> /\ \A i \in 1..Len(reqs[r].form) : reqs[r].form[i].name \notin uploadDir)

(***************************************************************************)
(* retryWithBackoff (under SpecRetry)                                      *)
(***************************************************************************)
RetryDone == retry.pc \in {"returned", "thrown"}

\* C38: with maxRetries >= 0 and attempts that end, retryWithBackoff ends: it invokes
\* the operation at most maxRetries + 1 times; the attempt that succeeds is the last
\* invocation and its value is what is returned; otherwise the error thrown is the one
\* of the last attempt made.
C38_RetryTerminates ==
  /\ [](retry.maxRetries >= 0 =>
          /\ retry.calls <= retry.maxRetries + 1
          /\ retry.pc = "returned" => (retry.last = "ok" /\ retry.result \in Values)
          /\ retry.pc = "thrown" =>
               (retry.calls >= 1 /\ retry.last = "error" /\ retry.lastError = retry.threw))
  /\ [][/\ RetryDone => retry' = retry
        /\ (retry'.last = "ok" /\ retry'.calls = retry.calls + 1) =>
             (retry'.pc = "returned" /\ retry.last # "ok")]_vars
  /\ (retry.pc \in {"call", "wait"} /\ retry.maxRetries >= 0) ~> RetryDone

\* every one of maxRetries + 1 attempts failed with an error that is retried, and the
\* last one's error was thrown
C38_Witness ==
  /\ retry.pc = "thrown" /\ retry.maxRetries = MaxRetryArg
  /\ retry.calls = retry.maxRetries + 1 /\ retry.attempt = retry.maxRetries
  /\ retry.lastError = ExternalServiceError

\* C39: after an attempt that failed with an application error of type VALIDATION,
\* AUTHENTICATION, AUTHORIZATION or NOT_FOUND the operation is not invoked again and
\* that error is thrown; after any other error, while attempts remain, the next attempt
\* is made after a wait of min(baseDelay * 2^attempt, maxDelay) plus a jitter of at most
\* a tenth of it.
C39_NoRetryOnClientErrors ==
  [][/\ (retry'.calls = retry.calls + 1 /\ retry'.last = "error") =>
          LET e == retry'.threw
              delay == Min(retry.baseDelay * 2^retry.attempt, retry.maxDelay)
          IN IF e.app /\ e.type \in {"VALIDATION", "AUTHENTICATION", "AUTHORIZATION", "NOT_FOUND"}
             THEN retry'.pc = "thrown" /\ retry'.lastError = e
             ELSE IF retry.attempt < retry.maxRetries
                  THEN /\ retry'.pc = "wait" /\ retry'.delay = delay
                       /\ retry'.jitter >= 0 /\ 10 * retry'.jitter <= delay
                  ELSE retry'.pc = "thrown" /\ retry'.lastError = e
     /\ (retry.pc = "wait" /\ retry' # retry) =>
          (retry'.pc = "call" /\ retry'.attempt = retry.attempt + 1 /\ retry'.calls = retry.calls)
     /\ retry.pc = "thrown" => retry'.calls = retry.calls]_vars

\* the first attempt failed with an error that is retried, the second, made after a wait
\* of baseDelay and with attempts left, failed with NOT_FOUND, which was thrown
C39_Witness ==
  /\ retry.pc = "thrown" /\ retry.maxRetries = MaxRetryArg /\ retry.calls = 2
  /\ retry.lastError = NotFoundError
  /\ retry.baseDelay = 20 /\ retry.delay = 20 /\ retry.jitter = 1

(***************************************************************************)
(* rateLimit on non-positive parameters (under SpecMisuse)                 *)
(***************************************************************************)
\* C40: a rateLimit call with limit <= 0 is denied and records no timestamp, a call
\* with windowMs <= 0 retains no earlier timestamp, and in both cases the result has
\* remaining >= 0 and a resetMs that is a number and >= 0.
C40_TotalOnNonPositive ==
  [][LET limit == rlRet'.limit
         windowMs == rlRet'.windowMs
     IN (rlRet'.key = "a" /\ (limit <= 0 \/ windowMs <= 0) /\ MisuseCall(limit, windowMs)) =>
          /\ limit <= 0 =>
               /\ ~rlRet'.allowed /\ admitted' = admitted
               /\ buckets'["a"].timestamps = Retained("a", windowMs)
          /\ windowMs <= 0 =>
               /\ Retained("a", windowMs) = <<>>
               /\ buckets'["a"].timestamps \in {<<>>, <<clock>>}
          /\ rlRet'.remaining >= 0
          /\ rlRet'.resetMs # NaN /\ rlRet'.resetMs >= 0]_vars

====
